---- MODULE Spec2Model ----
(***************************************************************************)
(* A model of the rust-raytracer core: the tiled parallel renderer of      *)
(* src/render.rs (thread pool, result channel, consumer fold), the shader  *)
(* recursion (cast_ray / get_color / shade_diffuse), Scene::trace of       *)
(* src/scene.rs and the primitive intersectors of src/objects/.            *)
(*                                                                         *)
(* Numbers.  The program computes in f64 / f32.  The model computes in     *)
(* exact arithmetic on the inputs it draws (integer grid points, axis      *)
(* aligned directions), and keeps the IEEE special values the code can     *)
(* produce on those inputs (+inf, -inf, NaN) as values of their own.       *)
(***************************************************************************)
EXTENDS Integers, Sequences, FiniteSets, TLC

VARIABLES
    \* ---- render (src/render.rs:103-154) ----
    camera,     \* Camera {width, height}
    pc,         \* position of the thread that called render
    cols,       \* render.rs:111
    rows,       \* render.rs:112
    jobs,       \* render.rs:113
    job_idx,    \* loop variable of render.rs:118
    queue,      \* the ThreadPool's queue of submitted closures
    workers,    \* the pool's worker threads
    chan,       \* the mpsc channel (tx, rx) of render.rs:117
    counter,    \* render.rs:142
    dest,       \* the accumulator of the fold at render.rs:149
    hist,       \* history: per submitted job, how often it was run, sent, blitted
    \* ---- the tile grid, probed (render.rs:107-129) ----
    probe,      \* a pixel of the image and the jobs whose tile holds it
    \* ---- the shader (src/render.rs:17-101) ----
    shScene,    \* the Scene as the shader sees it: materials, lights, what rays hit
    shpc,       \* position of super_sample
    shSamples,  \* the vec of samples built at render.rs:92-98
    shStack,    \* the active calls of get_color, innermost last
    shCall,     \* a call of cast_ray about to run
    shRet,      \* the Color a call has returned to its caller
    shPixel,    \* the Rgba<u8> super_sample returned
    shTraced,   \* history: the depths at which cast_ray called Scene::trace
    \* ---- scenes and rays (src/scene.rs, src/raycast.rs, src/objects) ----
    sbObjects,  \* SceneBuilder.objects
    sbLights,   \* SceneBuilder.lights
    scn,        \* the Scene that finish returned
    tray,       \* the Ray last traced
    objHits,    \* what Object::intersect answered for each object of the scene
    traced,     \* what Scene::trace returned for the ray
    shadowOf,   \* history: the intersection a shadow ray was created from
    \* ---- values under construction (src/objects/mod.rs, src/types.rs) ----
    obuilder,   \* the ObjectBuilder being configured
    obCalls,    \* history: the builder methods called on it, in order
    ccolor,     \* a Color as it was given and as it is now
    clamps,     \* history: how often Color::clamp was applied to it
    \* ---- shade_diffuse with the scene's geometry (src/render.rs:17-37) ----
    litCount,   \* the lights of the scene the loop of shade_diffuse has been through
    litColor,   \* the mut color of shade_diffuse
    \* ---- one pixel, one texel (src/render.rs:90-101, src/objects/mod.rs:35-57) ----
    sampledAt,  \* history: the positions super_sample has called sample at
    wrapArgs,   \* the val and bound that wrap was called with
    wrapped     \* what wrap returned

renderVars == <<camera, pc, cols, rows, jobs, job_idx, queue, workers, chan,
                counter, dest, hist>>

castVars == <<shScene, shpc, shSamples, shStack, shCall, shRet, shPixel, shTraced>>

traceVars == <<sbObjects, sbLights, scn, tray, objHits, traced, shadowOf>>

unitVars == <<obuilder, obCalls, ccolor, clamps>>

litVars == <<litCount, litColor>>

pixelVars == <<sampledAt, wrapArgs, wrapped>>

vars == <<renderVars, probe, castVars, traceVars, unitVars, litVars,
         pixelVars>>

----------------------------------------------------------------------------
(* Bounds of the model *)

\* Largest number of tile jobs of a camera the pipeline is explored for.
MaxJobs == 4
\* Number of worker threads of the pool (num_cpus::get() of the machine).
NumWorkers == 2

----------------------------------------------------------------------------
(* Arithmetic helpers *)

Min(a, b) == IF a <= b THEN a ELSE b
Max(a, b) == IF a >= b THEN a ELSE b

RECURSIVE Pow2(_)
Pow2(n) == IF n = 0 THEN 1 ELSE 2 * Pow2(n - 1)

\* The f32 spacing at n: 1 up to 2^24 (24 bits of mantissa), doubling with
\* every further binary digit.
RECURSIVE Ulp32(_)
Ulp32(n) == IF n < Pow2(24) THEN 1 ELSE 2 * Ulp32(n \div 2)

\* `n as f32` for a u32 n: the nearest f32, ties to the even mantissa.
U32AsF32(n) ==
    LET ulp == Ulp32(n)
        lo  == (n \div ulp) * ulp
        rem == n - lo
    IN  IF rem = 0 THEN n
        ELSE IF 2 * rem < ulp THEN lo
        ELSE IF 2 * rem > ulp THEN lo + ulp
        ELSE IF (lo \div ulp) % 2 = 0 THEN lo ELSE lo + ulp

\* (f / d).ceil() as u32 for a non-negative integral f32 f and a power of two d:
\* the quotient is exact in f32, so is its ceiling.
CeilDivF32(f, d) == (f + d - 1) \div d

----------------------------------------------------------------------------
(* render: the tile grid *)

tile_size == 128

Cols(cam) == CeilDivF32(U32AsF32(cam.width), tile_size)
Rows(cam) == CeilDivF32(U32AsF32(cam.height), tile_size)

\* The closure's captured tile origin (render.rs:119-120).
TileMx(j, c) == tile_size * (j % c)
TileMy(j, c) == tile_size * (j \div c)

\* render.rs:127-128
TileWidth(mx, sw)  == Min(mx + tile_size, sw) - mx
TileHeight(my, sh) == Min(my + tile_size, sh) - my

----------------------------------------------------------------------------
(* Images.  An image is its size and the rectangles written into it, oldest *)
(* first: layer [x, y, w, h, ox, oy] says that pixel (px, py) of            *)
(* [x, x+w) x [y, y+h) holds the colour computed for the sensor position    *)
(* (ox + px - x, oy + py - y).  A pixel no layer covers holds what          *)
(* DynamicImage::new_rgb8 put there.                                       *)

Blank == <<"blank">>

\* super_sample(x, y, scene, camera).unwrap_or(black) for a fixed scene and
\* camera: a function of the sample position alone (render.rs:90-101, 133).
PixelValue(sx, sy) == <<"px", sx, sy>>

new_rgb8(w, h) == [width |-> w, height |-> h, layers |-> <<>>]

InLayer(l, px, py) ==
    /\ l.x <= px /\ px < l.x + l.w
    /\ l.y <= py /\ py < l.y + l.h

\* GenericImage::get_pixel
PixelAt(img, px, py) ==
    LET hit == {i \in 1..Len(img.layers) : InLayer(img.layers[i], px, py)}
    IN  IF hit = {} THEN Blank
        ELSE LET l == img.layers[CHOOSE i \in hit : \A k \in hit : k <= i]
             IN  PixelValue(l.ox + px - l.x, l.oy + py - l.y)

\* The pixel loop of the closure (render.rs:131-137): put_pixel(x, y, colour of
\* (mx + x, my + y)) for every x < tile_width, y < tile_height.
FillTile(img, mx, my) ==
    [img EXCEPT !.layers =
        Append(@, [x |-> 0, y |-> 0, w |-> img.width, h |-> img.height,
                   ox |-> mx, oy |-> my])]

\* GenericImage::copy_from(&mut self, other, x, y): copies every pixel of other
\* to (x, y) + its position; nothing is copied when other does not fit.
copy_from(img, part, x, y) ==
    IF img.width < part.width + x \/ img.height < part.height + y
    THEN img
    ELSE [img EXCEPT !.layers =
            @ \o [i \in 1..Len(part.layers) |->
                    [part.layers[i] EXCEPT !.x = @ + x, !.y = @ + y]]]

----------------------------------------------------------------------------
(* render: the pipeline *)

\* Widths (heights) that give k columns (rows): the smallest and the largest.
Dims == UNION {{tile_size * (k - 1) + 1, tile_size * k} : k \in 1..MaxJobs}

Cameras == {c \in [width : Dims, height : Dims] : Cols(c) * Rows(c) <= MaxJobs}

Idle == [st |-> "idle"]

None == [some |-> FALSE]
Some(v) == [some |-> TRUE, val |-> v]

\* The shader's variables where no pixel is being shaded.
CastUnused ==
    /\ shScene = None
    /\ shpc = "off"
    /\ shSamples = <<>>
    /\ shStack = <<>>
    /\ shCall = None
    /\ shRet = None
    /\ shPixel = None
    /\ shTraced = <<>>

\* The scene variables where no scene is built.
TraceUnused ==
    /\ sbObjects = <<>>
    /\ sbLights = <<>>
    /\ scn = None
    /\ tray = None
    /\ objHits = <<>>
    /\ traced = None
    /\ shadowOf = None

\* No builder is being configured and no colour is under the clamp.
UnitUnused ==
    /\ obuilder = None
    /\ obCalls = <<>>
    /\ ccolor = None
    /\ clamps = 0

\* The variables of shade_diffuse where no intersection is being shaded.
LitUnused ==
    /\ litCount = 0
    /\ litColor = None

\* The variables of super_sample and wrap where neither is called.
PixelUnused ==
    /\ sampledAt = <<>>
    /\ wrapArgs = None
    /\ wrapped = None

NoProbe == [px |-> 0, py |-> 0, tiles |-> {}, on |-> FALSE]

Init ==
    /\ camera \in Cameras
    /\ pc = "start"
    /\ cols = 0 /\ rows = 0 /\ jobs = 0 /\ job_idx = 0
    /\ queue = <<>>
    /\ workers = [w \in 1..NumWorkers |-> Idle]
    /\ chan = <<>>
    /\ counter = 0
    /\ dest = new_rgb8(0, 0)
    /\ hist = <<>>
    /\ probe = NoProbe
    /\ LitUnused
    /\ PixelUnused
    /\ CastUnused
    /\ TraceUnused
    /\ UnitUnused

\* render.rs:104-117
RenderStart ==
    /\ pc = "start"
    /\ cols' = Cols(camera)
    /\ rows' = Rows(camera)
    /\ jobs' = Cols(camera) * Rows(camera)
    /\ job_idx' = 0
    /\ pc' = "submit"
    /\ UNCHANGED <<camera, queue, workers, chan, counter, dest, hist>>

\* One iteration of the loop at render.rs:118-140: pool.execute(closure).
Submit ==
    /\ pc = "submit"
    /\ job_idx < jobs
    /\ queue' = Append(queue, [idx |-> job_idx,
                               mx |-> TileMx(job_idx, cols),
                               my |-> TileMy(job_idx, cols),
                               sw |-> camera.width,
                               sh |-> camera.height])
    /\ job_idx' = job_idx + 1
    /\ hist' = [j \in 0..job_idx |->
                   IF j < job_idx THEN hist[j]
                   ELSE [run |-> 0, sent |-> 0, blit |-> 0]]
    /\ UNCHANGED <<camera, pc, cols, rows, jobs, workers, chan, counter, dest>>

\* The loop ends; the fold's initial accumulator is built (render.rs:142-149).
SubmitDone ==
    /\ pc = "submit"
    /\ job_idx >= jobs
    /\ counter' = 0
    /\ dest' = new_rgb8(camera.width, camera.height)
    /\ pc' = "recv"
    /\ UNCHANGED <<camera, cols, rows, jobs, job_idx, queue, workers, chan, hist>>

\* Dequeue with the closure left in the queue: a job that is run again.
Dequeue_NoPop(w) ==
    /\ workers[w].st = "idle"
    /\ queue # <<>>
    /\ LET job == Head(queue)
       IN  /\ workers' = [workers EXCEPT ![w] =
                [st |-> "running", job |-> job,
                 image |-> new_rgb8(TileWidth(job.mx, job.sw),
                                    TileHeight(job.my, job.sh))]]
           /\ hist' = [hist EXCEPT ![job.idx].run = Min(@ + 1, 2)]
    /\ UNCHANGED <<camera, pc, cols, rows, jobs, job_idx, queue, chan, counter, dest>>

\* A pool thread takes the next closure and starts it (render.rs:125-129).
Dequeue(w) ==
    /\ workers[w].st = "idle"
    /\ queue # <<>>
    /\ LET job == Head(queue)
       IN  /\ workers' = [workers EXCEPT ![w] =
                [st |-> "running", job |-> job,
                 image |-> new_rgb8(TileWidth(job.mx, job.sw),
                                    TileHeight(job.my, job.sh))]]
           /\ hist' = [hist EXCEPT ![job.idx].run = @ + 1]
    /\ queue' = Tail(queue)
    /\ UNCHANGED <<camera, pc, cols, rows, jobs, job_idx, chan, counter, dest>>

\* The closure's pixel loop (render.rs:131-137); it touches the worker's own
\* image only.
RenderTile(w) ==
    /\ workers[w].st = "running"
    /\ workers' = [workers EXCEPT ![w].st = "filled",
                                  ![w].image = FillTile(@, workers[w].job.mx,
                                                           workers[w].job.my)]
    /\ UNCHANGED <<camera, pc, cols, rows, jobs, job_idx, queue, chan, counter,
                   dest, hist>>

\* A send that does not wait for the pixel loop to end.
Send_Early(w) ==
    /\ workers[w].st \in {"running", "filled"}
    /\ chan' = Append(chan, [image |-> workers[w].image,
                             x |-> workers[w].job.mx,
                             y |-> workers[w].job.my,
                             idx |-> workers[w].job.idx])
    /\ hist' = [hist EXCEPT ![workers[w].job.idx].sent = @ + 1]
    /\ workers' = [workers EXCEPT ![w] = Idle]
    /\ UNCHANGED <<camera, pc, cols, rows, jobs, job_idx, queue, counter, dest>>

\* tx.send((image, mx, my)).unwrap() and the closure's end (render.rs:138-139).
Send(w) ==
    /\ workers[w].st = "filled"
    /\ chan' = Append(chan, [image |-> workers[w].image,
                             x |-> workers[w].job.mx,
                             y |-> workers[w].job.my,
                             idx |-> workers[w].job.idx])
    /\ hist' = [hist EXCEPT ![workers[w].job.idx].sent = @ + 1]
    /\ workers' = [workers EXCEPT ![w] = Idle]
    /\ UNCHANGED <<camera, pc, cols, rows, jobs, job_idx, queue, counter, dest>>

\* Receive placing the tile by its arrival number, not by its payload.
Receive_ByArrival ==
    /\ pc = "recv"
    /\ counter < jobs
    /\ chan # <<>>
    /\ LET result == Head(chan)
       IN  /\ dest' = copy_from(dest, result.image,
                                TileMx(counter, cols), TileMy(counter, cols))
           /\ hist' = [hist EXCEPT ![result.idx].blit = @ + 1]
    /\ counter' = counter + 1
    /\ chan' = Tail(chan)
    /\ UNCHANGED <<camera, pc, cols, rows, jobs, job_idx, queue, workers>>

\* One item of rx.iter().inspect(..).take(jobs).fold(..) (render.rs:143-153).
\* The message is (image, x, y); idx is history, read by hist alone.
Receive ==
    /\ pc = "recv"
    /\ counter < jobs
    /\ chan # <<>>
    /\ LET result == Head(chan)
       IN  /\ dest' = copy_from(dest, result.image, result.x, result.y)
           /\ hist' = [hist EXCEPT ![result.idx].blit = @ + 1]
    /\ counter' = counter + 1
    /\ chan' = Tail(chan)
    /\ UNCHANGED <<camera, pc, cols, rows, jobs, job_idx, queue, workers>>

\* The senders of a channel whose only senders are the jobs' clones.
Senders_ClonesOnly ==
    Len(queue) + Cardinality({w \in 1..NumWorkers : workers[w].st # "idle"})

\* The live senders of the channel: render's own tx (render.rs:117), in scope
\* until render returns, and one clone (render.rs:123) per closure that is
\* queued or running.
Senders ==
    (IF pc \in {"submit", "recv"} THEN 1 ELSE 0)
    + Len(queue) + Cardinality({w \in 1..NumWorkers : workers[w].st # "idle"})

\* The iterator chain ends and the fold returns its accumulator
\* (render.rs:143-154): take(jobs) is exhausted, or rx.iter() ends because
\* the channel is empty and has no sender left.
Return ==
    /\ pc = "recv"
    /\ IF counter >= jobs THEN TRUE ELSE chan = <<>> /\ Senders = 0
    /\ pc' = "done"
    /\ UNCHANGED <<camera, cols, rows, jobs, job_idx, queue, workers, chan,
                   counter, dest, hist>>

Next ==
    \/ RenderStart /\ UNCHANGED <<probe, pixelVars, litVars, castVars, traceVars, unitVars>>
    \/ Submit /\ UNCHANGED <<probe, pixelVars, litVars, castVars, traceVars, unitVars>>
    \/ SubmitDone /\ UNCHANGED <<probe, pixelVars, litVars, castVars, traceVars, unitVars>>
    \/ \E w \in 1..NumWorkers : Dequeue(w) /\ UNCHANGED <<probe, pixelVars, litVars, castVars, traceVars, unitVars>>
    \/ \E w \in 1..NumWorkers : RenderTile(w) /\ UNCHANGED <<probe, pixelVars, litVars, castVars, traceVars, unitVars>>
    \/ \E w \in 1..NumWorkers : Send(w) /\ UNCHANGED <<probe, pixelVars, litVars, castVars, traceVars, unitVars>>
    \/ Receive /\ UNCHANGED <<probe, pixelVars, litVars, castVars, traceVars, unitVars>>
    \/ Return /\ UNCHANGED <<probe, pixelVars, litVars, castVars, traceVars, unitVars>>

Spec == Init /\ [][Next]_vars

----------------------------------------------------------------------------
(* The tile grid of a camera, probed pixel by pixel *)

\* The rectangle of job j's tile in the image (render.rs:119-128).
TileRect(j, c, sw, sh) ==
    LET mx == TileMx(j, c)
        my == TileMy(j, c)
    IN  [x |-> mx, y |-> my, w |-> TileWidth(mx, sw), h |-> TileHeight(my, sh)]

\* Cameras of the grid: those of the pipeline's sizes, and the widths around the
\* first u32 that f32 does not hold.
TileCameras ==
    [width : Dims, height : {1, tile_size + 1}]
        \cup [width : {Pow2(24), Pow2(24) + 1}, height : {1}]

\* Pixels probed along one axis of length n: the ends, the middle and both sides
\* of the first tile edge.
ProbeAt(n) == {p \in {0, tile_size - 1, tile_size, n \div 2, n - 1} : p < n}

InitTiles ==
    /\ camera \in TileCameras
    /\ pc = "start"
    /\ cols = 0 /\ rows = 0 /\ jobs = 0 /\ job_idx = 0
    /\ queue = <<>>
    /\ workers = [w \in 1..NumWorkers |-> Idle]
    /\ chan = <<>>
    /\ counter = 0
    /\ dest = new_rgb8(0, 0)
    /\ hist = <<>>
    /\ probe = NoProbe
    /\ LitUnused
    /\ PixelUnused
    /\ CastUnused
    /\ TraceUnused
    /\ UnitUnused

\* The jobs render sets out to submit, asked for the tiles that hold one pixel.
ProbePixel ==
    /\ pc = "submit"
    /\ ~probe.on
    /\ \E px \in ProbeAt(camera.width), py \in ProbeAt(camera.height) :
          probe' = [px |-> px, py |-> py, on |-> TRUE,
                    tiles |-> {j \in 0..(jobs - 1) :
                        InLayer(TileRect(j, cols, camera.width, camera.height),
                                px, py)}]
    /\ UNCHANGED renderVars

NextTiles ==
    \/ RenderStart /\ UNCHANGED <<probe, pixelVars, litVars, castVars, traceVars, unitVars>>
    \/ ProbePixel /\ UNCHANGED <<pixelVars, litVars, castVars, traceVars, unitVars>>

SpecTiles == InitTiles /\ [][NextTiles]_vars

\* ceil(n / d) of the integers n, d.
CeilDiv(n, d) == (n + d - 1) \div d

\* C1: for every camera with W > 0 and H > 0 render submits exactly cols * rows
\* tile jobs with cols = ceil(W / 128) and rows = ceil(H / 128), and no tile is
\* missing from the image: every pixel lies in the tile of some job.
C1_SubmitsCeilGrid ==
    pc # "start" =>
        /\ cols = CeilDiv(camera.width, tile_size)
        /\ rows = CeilDiv(camera.height, tile_size)
        /\ jobs = CeilDiv(camera.width, tile_size) * CeilDiv(camera.height, tile_size)
        /\ probe.on => probe.tiles # {}

\* C2: the tile rectangles of render lie inside the W x H image, and every pixel
\* of the image lies in exactly one of them.
C2_TilesPartitionImage ==
    probe.on =>
        /\ Cardinality(probe.tiles) = 1
        /\ \A j \in probe.tiles :
              LET r == TileRect(j, cols, camera.width, camera.height)
              IN  /\ 0 <= r.x /\ r.x + r.w <= camera.width
                  /\ 0 <= r.y /\ r.y + r.h <= camera.height
                  /\ r.w > 0 /\ r.h > 0

----------------------------------------------------------------------------
(* Rasters *)

\* The x (y) positions at which the layer on top can change.
XCuts(img) == {0} \cup {c \in UNION {{img.layers[i].x, img.layers[i].x + img.layers[i].w}
                                     : i \in 1..Len(img.layers)} : c < img.width}
YCuts(img) == {0} \cup {c \in UNION {{img.layers[i].y, img.layers[i].y + img.layers[i].h}
                                     : i \in 1..Len(img.layers)} : c < img.height}

\* a and b hold the same colour at every pixel.  Between two cuts of a and b the
\* layer on top is the same in a and in b, and a layer's colour is that of a
\* sensor position moving with the pixel: two images that agree at the first
\* pixel of every cell agree on the cell.
SameRaster(a, b) ==
    /\ a.width = b.width
    /\ a.height = b.height
    /\ \A px \in XCuts(a) \cup XCuts(b) : \A py \in YCuts(a) \cup YCuts(b) :
          (px < a.width /\ py < a.height) => PixelAt(a, px, py) = PixelAt(b, px, py)

\* The tile of job j, rendered (render.rs:119-137).
TileOf(j, cam) ==
    LET mx == TileMx(j, Cols(cam))
        my == TileMy(j, Cols(cam))
    IN  [image |-> FillTile(new_rgb8(TileWidth(mx, cam.width),
                                     TileHeight(my, cam.height)), mx, my),
         x |-> mx, y |-> my]

\* The image of the fold when the tiles arrive in the order of s.
RECURSIVE BlitAll(_, _, _)
BlitAll(img, s, cam) ==
    IF s = <<>> THEN img
    ELSE LET t == TileOf(Head(s), cam)
         IN  BlitAll(copy_from(img, t.image, t.x, t.y), Tail(s), cam)

\* The image when the tiles arrive in the order of submission.
InOrderImage(cam) ==
    BlitAll(new_rgb8(cam.width, cam.height),
            [i \in 1..(Cols(cam) * Rows(cam)) |-> i - 1], cam)

----------------------------------------------------------------------------
(* Claims on the pipeline *)

\* C3: for a fixed scene and camera the image render returns is the same for
\* every interleaving of the workers and every order of arrival of the tiles on
\* the channel: it is, pixel by pixel, the image obtained when the tiles arrive
\* in the order of submission.
C3_ArrivalOrderIrrelevant ==
    pc = "done" => SameRaster(dest, InOrderImage(camera))

\* Witness of C3: render has returned an image of several tiles whose first
\* arrival was not the first tile submitted.
C3_Witness ==
    /\ pc = "done"
    /\ jobs >= 3
    /\ Len(dest.layers) = jobs
    /\ <<dest.layers[1].x, dest.layers[1].y>> # <<0, 0>>

\* Where tile j is: not yet submitted, in the pool's queue, with a worker, or
\* sent.
InQueue(j)   == \E i \in 1..Len(queue) : queue[i].idx = j
WithWorker(j) == \E w \in 1..NumWorkers : workers[w].st # "idle" /\ workers[w].job.idx = j
TileState(j) ==
    IF j \notin DOMAIN hist THEN "None"
    ELSE IF InQueue(j) THEN "Queued"
    ELSE IF WithWorker(j) THEN "Running"
    ELSE IF hist[j].sent > 0 THEN "Delivered"
    ELSE "None"

TileRank(st) == CASE st = "None" -> 0 [] st = "Queued" -> 1
                  [] st = "Running" -> 2 [] st = "Delivered" -> 3

TileOnce ==
    /\ DOMAIN hist = 0..(job_idx - 1)
    /\ pc \in {"recv", "done"} => job_idx = jobs
    /\ \A j \in DOMAIN hist :
            /\ ~(InQueue(j) /\ WithWorker(j))
            /\ Cardinality({i \in 1..Len(queue) : queue[i].idx = j}) <= 1
            /\ Cardinality({w \in 1..NumWorkers :
                    workers[w].st # "idle" /\ workers[w].job.idx = j}) <= 1
            /\ hist[j].run <= 1 /\ hist[j].sent <= 1 /\ hist[j].blit <= 1
            /\ hist[j].run = (IF TileRank(TileState(j)) >= 2 THEN 1 ELSE 0)
            /\ TileState(j) # "None"
            /\ hist[j].sent = (IF TileState(j) = "Delivered" THEN 1 ELSE 0)
            /\ hist[j].blit <= hist[j].sent
            /\ Cardinality({i \in 1..Len(chan) : chan[i].idx = j})
                   = hist[j].sent - hist[j].blit
            /\ pc = "done" => hist[j].sent = 1 /\ hist[j].blit = 1

TileStep ==
    pc # "start" =>
        \A j \in 0..(jobs - 1) :
            \/ TileState(j)' = TileState(j)
            \/ TileRank(TileState(j)') = TileRank(TileState(j)) + 1

\* C4: every tile moves only along Queued -> Running -> Delivered, one step at a
\* time and never backwards; it is never queued or run a second time, and it is
\* sent on the channel and blitted into the destination image at most once, and
\* exactly once when render has returned.
C4_TileLifecycle == [][TileStep]_vars /\ []TileOnce

\* Witness of C4: render has returned and a tile that waited in the queue behind
\* others has been run, sent and blitted.
C4_Witness ==
    /\ pc = "done"
    /\ jobs > NumWorkers
    /\ \A j \in 0..(jobs - 1) : hist[j] = [run |-> 1, sent |-> 1, blit |-> 1]
    /\ \E i \in 1..Len(dest.layers) : \E k \in 1..(i - 1) :
          dest.layers[k].oy > dest.layers[i].oy

----------------------------------------------------------------------------
(* Colours (src/types.rs).  A channel is a rational number [n, d], d > 0, in *)
(* lowest terms.                                                            *)

Abs(x) == IF x < 0 THEN -x ELSE x

RECURSIVE GCD(_, _)
GCD(a, b) == IF b = 0 THEN a ELSE GCD(b, a % b)

Rat(n, d) == LET g == GCD(Abs(n), d) IN [n |-> n \div g, d |-> d \div g]
RInt(k) == [n |-> k, d |-> 1]
RAdd(a, b) == Rat(a.n * b.d + b.n * a.d, a.d * b.d)
RSub(a, b) == Rat(a.n * b.d - b.n * a.d, a.d * b.d)
RMul(a, b) == Rat(a.n * b.n, a.d * b.d)
RLt(a, b) == a.n * b.d < b.n * a.d
\* The f32 values that are no rational: +inf is 1/0, -inf is -1/0 and NaN is
\* 0/0.  RLt orders the infinities as f32 does and is false on NaN.
RInf == [n |-> 1, d |-> 0]
RNegInf == [n |-> -1, d |-> 0]
RNaN == [n |-> 0, d |-> 0]
\* f32::min, f32::max: the other operand when one is NaN
RMin(a, b) == IF a = RNaN THEN b ELSE IF b = RNaN THEN a ELSE IF RLt(b, a) THEN b ELSE a
RMax(a, b) == IF a = RNaN THEN b ELSE IF b = RNaN THEN a ELSE IF RLt(a, b) THEN b ELSE a
RAbs(a) == [n |-> Abs(a.n), d |-> a.d]

\* Color::from_rgb
from_rgb(r, g, b) == [red |-> r, green |-> g, blue |-> b]

\* impl Mul for Color, impl Mul<f32> for Color, impl Add for Color
ColorMul(a, b) ==
    [red |-> RMul(a.red, b.red), green |-> RMul(a.green, b.green),
     blue |-> RMul(a.blue, b.blue)]
ColorScale(a, k) ==
    [red |-> RMul(a.red, k), green |-> RMul(a.green, k), blue |-> RMul(a.blue, k)]
ColorAdd(a, b) ==
    [red |-> RAdd(a.red, b.red), green |-> RAdd(a.green, b.green),
     blue |-> RAdd(a.blue, b.blue)]

\* A clamp from above only.
ClampChannel_UpperOnly(x) == RMin(x, RInt(1))

\* Color::clamp: x.min(1.0).max(0.0) on every channel
ClampChannel(x) == RMax(RMin(x, RInt(1)), RInt(0))
clamp(c) ==
    [red |-> ClampChannel(c.red), green |-> ClampChannel(c.green),
     blue |-> ClampChannel(c.blue)]

\* (x * 255.0).round() as u8: the nearest integer, halves away from zero, then
\* the cast's saturation to 0..255.
RoundToU8(x) ==
    LET m == Abs(x.n) * 255
        r == (2 * m + x.d) \div (2 * x.d)
    IN  IF x.n < 0 THEN 0 ELSE Min(r, 255)

\* Color::to_rgba8
to_rgba8(c) == <<RoundToU8(c.red), RoundToU8(c.green), RoundToU8(c.blue), 0>>

BlackColor == from_rgb(RInt(0), RInt(0), RInt(0))

----------------------------------------------------------------------------
(* The shader (src/render.rs:17-101).                                       *)
(*                                                                          *)
(* The scene as the shader sees it.  Objects are numbered 1..n in the order *)
(* of Scene.objects; 0 stands for no intersection.  What the geometry       *)
(* decides is given with the scene: prime[i] is the object the i-th sample  *)
(* ray of the pixel hits, bounce[o] the object the reflection ray leaving o *)
(* hits, shadowed[o][l] whether the shadow ray from a hit on o towards      *)
(* light l hits anything, ndotl[o][l] the dot product of the surface normal *)
(* at the hit with the direction to light l.  A light's intensity is given  *)
(* in units of PI, which makes light_intensity * (albedo / PI) rational.    *)

\* Largest number of objects of a scene the shader is explored for.
MaxObjects == 2

MaxDepth == 32

Diffuse == [kind |-> "Diffuse"]
Reflective(r) == [kind |-> "Reflective", reflectivity |-> r]

MatDiffuse ==
    [color |-> from_rgb(RInt(1), Rat(1, 2), RInt(0)), albedo |-> RInt(1),
     surface |-> Diffuse]
MatMirror ==
    [color |-> from_rgb(RInt(1), RInt(1), RInt(1)), albedo |-> RInt(1),
     surface |-> Reflective(RInt(1))]
MatHalf ==
    [color |-> from_rgb(RInt(0), RInt(1), RInt(1)), albedo |-> Rat(1, 2),
     surface |-> Reflective(Rat(1, 2))]
MatZero ==
    [color |-> from_rgb(Rat(1, 2), RInt(1), Rat(1, 2)), albedo |-> RInt(1),
     surface |-> Reflective(RInt(0))]
Mats == {MatDiffuse, MatMirror, MatHalf, MatZero}

WhiteLight == [color |-> from_rgb(RInt(1), RInt(1), RInt(1)), intensityOverPi |-> RInt(1)]

\* The lights of a scene of n objects and what the geometry says of them.
LightSetups(n) ==
    {[lights |-> <<>>, shadowed |-> [o \in 1..n |-> <<>>], ndotl |-> [o \in 1..n |-> <<>>]]}
    \cup {[lights |-> <<WhiteLight>>,
           shadowed |-> [o \in 1..n |-> <<o \in dark>>],
           ndotl |-> [o \in 1..n |-> <<dot>>]]
          : dark \in {{}, {1}}, dot \in {1, -1}}

\* The hits of the five sample rays of a pixel.
PrimeHits(n) ==
    {[i \in 1..5 |-> h] : h \in 0..n} \cup {<<0, 1, 0, 1, 1>>}

\* A reflection ray leaving o hits nothing or the next object.
Bounces(n) == {b \in [1..n -> 0..n] : \A o \in 1..n : b[o] \in {0, (o % n) + 1}}

\* A ray that bounces for ever between surfaces of reflectivity 1/2 halves its
\* weight 32 times; the scenes drawn keep such surfaces off the cycles.
OffCycle(mats, b) ==
    (\E o \in DOMAIN mats : mats[o] = MatHalf) =>
        (\E o \in DOMAIN mats : b[o] = 0 \/ mats[o].surface.kind = "Diffuse")

ScenesOf(n) ==
    {[mats |-> m, lights |-> ls.lights, shadowed |-> ls.shadowed,
      ndotl |-> ls.ndotl, bounce |-> b, prime |-> p]
        : m \in [1..n -> Mats], b \in Bounces(n), ls \in LightSetups(n),
          p \in PrimeHits(n)}

ShadeScenes(most) ==
    {s \in UNION {ScenesOf(n) : n \in 1..most} : OffCycle(s.mats, s.bounce)}

\* The pipeline's variables where no image is being rendered.
RenderUnused ==
    /\ camera = [width |-> 1, height |-> 1]
    /\ pc = "off"
    /\ cols = 0 /\ rows = 0 /\ jobs = 0 /\ job_idx = 0
    /\ queue = <<>>
    /\ workers = [w \in 1..NumWorkers |-> Idle]
    /\ chan = <<>>
    /\ counter = 0
    /\ dest = new_rgb8(0, 0)
    /\ hist = <<>>

\* A reflectivity without the threshold.
reflectivity_NoThreshold(mat) ==
    IF mat.surface.kind = "Reflective" THEN Some(mat.surface.reflectivity) ELSE None

\* Surface::reflectivity, raycast.rs:209-220: None below 1e-10.
reflectivity(mat) ==
    IF mat.surface.kind = "Reflective"
    THEN IF mat.surface.reflectivity.n * 100000
              < CeilDiv(mat.surface.reflectivity.d, 100000)
         THEN None
         ELSE Some(mat.surface.reflectivity)
    ELSE None

\* render.rs:17-37, the fold over the first k lights.
RECURSIVE ShadeFold(_, _, _)
ShadeFold(scene, o, k) ==
    IF k = 0 THEN BlackColor
    ELSE LET color == ShadeFold(scene, o, k - 1)
             light == scene.lights[k]
             mat == scene.mats[o]
             light_power == RInt(Abs(scene.ndotl[o][k]))
             \* light_intensity * light_reflected = intensity * (albedo / PI)
             lit == RMul(light.intensityOverPi, mat.albedo)
         IN  IF scene.shadowed[o][k] THEN color
             ELSE ColorAdd(color,
                     ColorScale(ColorScale(ColorMul(mat.color, light.color),
                                           light_power), lit))

shade_diffuse(scene, o) == ShadeFold(scene, o, Len(scene.lights))

\* render.rs:70-88
RECURSIVE SumChannel(_, _, _)
SumChannel(colors, ch, k) ==
    IF k = 0 THEN 0 ELSE SumChannel(colors, ch, k - 1) + colors[k][ch]

\* An average whose sums are bytes.
average_color_Wrapping(colors) ==
    [ch \in 1..4 |-> ((SumChannel(colors, ch, Len(colors)) % 256) \div Len(colors)) % 256]

average_color(colors) ==
    [ch \in 1..4 |-> (SumChannel(colors, ch, Len(colors)) \div Len(colors)) % 256]

Top == shStack[Len(shStack)]
Pop == SubSeq(shStack, 1, Len(shStack) - 1)
Frame(o, depth) == [obj |-> o, depth |-> depth, st |-> "shade", color |-> BlackColor]

\* Where the shading of a pixel stands: which step of render.rs:39-101 is next.
AtSampleTrace ==
    /\ shpc = "samples" /\ Len(shSamples) < 5
    /\ shStack = <<>> /\ shCall = None /\ shRet = None
AtGetColorShade == shStack # <<>> /\ Top.st = "shade"
AtCastRay == shCall # None
AtGetColorCombine ==
    shStack # <<>> /\ Top.st = "reflect" /\ shCall = None /\ shRet # None
AtSampleEnd == shpc = "samples" /\ shStack = <<>> /\ shRet # None
AtSuperSampleEnd == shpc = "samples" /\ Len(shSamples) = 5

InitCast ==
    /\ RenderUnused
    /\ probe = NoProbe
    /\ LitUnused
    /\ PixelUnused
    /\ shScene \in {Some(s) : s \in ShadeScenes(MaxObjects)}
    /\ shpc = "samples"
    /\ shSamples = <<>>
    /\ shStack = <<>>
    /\ shCall = None
    /\ shRet = None
    /\ shPixel = None
    /\ shTraced = <<>>
    /\ TraceUnused
    /\ UnitUnused

\* sample, render.rs:61-65: the prime ray is traced; a miss is black.
SampleTrace ==
    /\ AtSampleTrace
    /\ LET h == shScene.val.prime[Len(shSamples) + 1] IN
        /\ shTraced' = <<0>>
        /\ IF h = 0
           THEN /\ shSamples' = Append(shSamples, to_rgba8(BlackColor))
                /\ shStack' = shStack
           ELSE /\ shStack' = <<Frame(h, 0)>>
                /\ shSamples' = shSamples
    /\ UNCHANGED <<shScene, shpc, shCall, shRet, shPixel>>

\* A get_color that hands its own depth on to cast_ray.
GetColorShade_SameDepth ==
    /\ AtGetColorShade
    /\ LET color == shade_diffuse(shScene.val, Top.obj)
           refl == reflectivity(shScene.val.mats[Top.obj])
       IN  IF refl.some
           THEN /\ shStack' = [shStack EXCEPT ![Len(shStack)] =
                                  [@ EXCEPT !.st = "reflect", !.color = color]]
                /\ shCall' = Some([from |-> Top.obj, depth |-> Top.depth])
                /\ shRet' = shRet
           ELSE /\ shStack' = Pop
                /\ shRet' = Some(color)
                /\ shCall' = shCall
    /\ UNCHANGED <<shScene, shpc, shSamples, shPixel, shTraced>>

\* get_color, render.rs:39-43: shade, then reflect if the surface reflects.
GetColorShade ==
    /\ AtGetColorShade
    /\ LET color == shade_diffuse(shScene.val, Top.obj)
           refl == reflectivity(shScene.val.mats[Top.obj])
       IN  IF refl.some
           THEN /\ shStack' = [shStack EXCEPT ![Len(shStack)] =
                                  [@ EXCEPT !.st = "reflect", !.color = color]]
                /\ shCall' = Some([from |-> Top.obj, depth |-> Top.depth + 1])
                /\ shRet' = shRet
           ELSE /\ shStack' = Pop
                /\ shRet' = Some(color)
                /\ shCall' = shCall
    /\ UNCHANGED <<shScene, shpc, shSamples, shPixel, shTraced>>

\* A cast_ray whose cap lets a ray of depth 32 through.
CastRay_CapAbove ==
    /\ AtCastRay
    /\ IF shCall.val.depth > MaxDepth
       THEN /\ shRet' = Some(BlackColor)
            /\ UNCHANGED <<shStack, shTraced>>
       ELSE LET h == shScene.val.bounce[shCall.val.from] IN
            /\ shTraced' = Append(shTraced, shCall.val.depth)
            /\ IF h = 0
               THEN shRet' = Some(BlackColor) /\ shStack' = shStack
               ELSE shStack' = Append(shStack, Frame(h, shCall.val.depth))
                    /\ shRet' = shRet
    /\ shCall' = None
    /\ UNCHANGED <<shScene, shpc, shSamples, shPixel>>

\* cast_ray, render.rs:50-59
CastRay ==
    /\ AtCastRay
    /\ IF shCall.val.depth >= MaxDepth
       THEN /\ shRet' = Some(BlackColor)
            /\ UNCHANGED <<shStack, shTraced>>
       ELSE LET h == shScene.val.bounce[shCall.val.from] IN
            /\ shTraced' = Append(shTraced, shCall.val.depth)
            /\ IF h = 0
               THEN shRet' = Some(BlackColor) /\ shStack' = shStack
               ELSE shStack' = Append(shStack, Frame(h, shCall.val.depth))
                    /\ shRet' = shRet
    /\ shCall' = None
    /\ UNCHANGED <<shScene, shpc, shSamples, shPixel>>

\* get_color, render.rs:43-47: color * (1 - r) + reflection * r
GetColorCombine ==
    /\ AtGetColorCombine
    /\ LET relf == reflectivity(shScene.val.mats[Top.obj]).val
           reflection_color == ColorScale(shRet.val, relf)
       IN  shRet' = Some(ColorAdd(ColorScale(Top.color, RSub(RInt(1), relf)),
                                  reflection_color))
    /\ shStack' = Pop
    /\ UNCHANGED <<shScene, shpc, shSamples, shCall, shPixel, shTraced>>

\* sample, render.rs:66-67
SampleEnd ==
    /\ AtSampleEnd
    /\ shSamples' = Append(shSamples, to_rgba8(clamp(shRet.val)))
    /\ shRet' = None
    /\ UNCHANGED <<shScene, shpc, shStack, shCall, shPixel, shTraced>>

\* super_sample, render.rs:90-101
SuperSampleEnd ==
    /\ AtSuperSampleEnd
    /\ shPixel' = Some(average_color(shSamples))
    /\ shpc' = "done"
    /\ UNCHANGED <<shScene, shSamples, shStack, shCall, shRet, shTraced>>

NextCast ==
    \/ SampleTrace /\ UNCHANGED <<renderVars, probe, pixelVars, litVars, traceVars, unitVars>>
    \/ GetColorShade /\ UNCHANGED <<renderVars, probe, pixelVars, litVars, traceVars, unitVars>>
    \/ CastRay /\ UNCHANGED <<renderVars, probe, pixelVars, litVars, traceVars, unitVars>>
    \/ GetColorCombine /\ UNCHANGED <<renderVars, probe, pixelVars, litVars, traceVars, unitVars>>
    \/ SampleEnd /\ UNCHANGED <<renderVars, probe, pixelVars, litVars, traceVars, unitVars>>
    \/ SuperSampleEnd /\ UNCHANGED <<renderVars, probe, pixelVars, litVars, traceVars, unitVars>>

SpecCast == InitCast /\ [][NextCast]_vars

\* Steps a pixel's shading has left at most: a sample costs a trace and then
\* three steps for every level of depth still open below the cap.
SampleCost == 3 * MaxDepth + 2

CastMeasure ==
    LET left == 5 - Len(shSamples)
        chain == IF shCall # None
                 THEN 3 * (MaxDepth - shCall.val.depth) + Len(shStack) + 2
                 ELSE IF shRet # None THEN Len(shStack) + 1
                 ELSE 3 * (MaxDepth - Top.depth) + Len(shStack)
    IN  IF shpc # "samples" THEN 0
        ELSE IF shStack = <<>> /\ shCall = None /\ shRet = None
             THEN SampleCost * left + 1
             ELSE SampleCost * (left - 1) + 1 + chain

\* Perfect mirrors only, and no light.
MirrorsNoLights(scene) ==
    /\ scene.lights = <<>>
    /\ \A o \in DOMAIN scene.mats : scene.mats[o] = MatMirror

CastCapped ==
    /\ \A i \in DOMAIN shTraced : shTraced[i] < MaxDepth
    /\ \A i \in DOMAIN shStack : shStack[i].depth = i - 1
    /\ Len(shStack) <= MaxDepth
    /\ CastMeasure >= 0
    /\ shpc = "samples" =>
          \/ AtSampleTrace \/ AtGetColorShade \/ AtCastRay
          \/ AtGetColorCombine \/ AtSampleEnd \/ AtSuperSampleEnd
    /\ (shpc = "done" /\ MirrorsNoLights(shScene.val)) => shPixel = Some(<<0, 0, 0, 0>>)

\* C5: cast_ray never traces a ray of depth 32 or more (it returns black
\* instead), so the recursion is at most 32 frames deep and shading a pixel
\* ends: every step lowers a natural-valued measure and a step is possible
\* until the pixel is done.  A scene of perfect mirrors with no lights is
\* rendered black.
C5_DepthCapTerminates ==
    /\ [][CastMeasure' < CastMeasure]_vars
    /\ []CastCapped

\* A pixel of two mirrors that face each other, with no light, is done; its
\* last sample was followed down to the cap.
C5_Witness ==
    /\ shpc = "done"
    /\ MirrorsNoLights(shScene.val)
    /\ Len(shScene.val.mats) >= 1
    /\ \A o \in DOMAIN shScene.val.bounce : shScene.val.bounce[o] # 0
    /\ shScene.val.prime[5] # 0
    /\ shTraced = [i \in 1..MaxDepth |-> i - 1]
    /\ shPixel = Some(<<0, 0, 0, 0>>)

----------------------------------------------------------------------------
(* Numbers of the geometry (f64 in the source).                             *)
(*                                                                          *)
(* A finite number is (n + e * 1e-13) / d with integers n, e and d > 0: the *)
(* guard distance 1e-13 is carried as a unit of its own, far below every    *)
(* difference of the coordinates used.  Only ray origins carry it, so no    *)
(* product of two such parts arises.  The bounding box test also meets the  *)
(* infinities and NaN of 1.0 / 0.0 and 0.0 * inf.                           *)

\* F(v), F(v, w), F(v, w, x) with every operand evaluated once.
Bind(v, F(_)) == CHOOSE r \in {F(a) : a \in {v}} : TRUE
Bind2(v, w, F(_, _)) == CHOOSE r \in {F(a, b) : a \in {v}, b \in {w}} : TRUE
Bind3(v, w, x, F(_, _, _)) ==
    CHOOSE r \in {F(a, b, c) : a \in {v}, b \in {w}, c \in {x}} : TRUE

Q(n, e, d) ==
    IF d = 1 THEN [n |-> n, e |-> e, d |-> 1]
    ELSE LET g == GCD(GCD(Abs(n), Abs(e)), d)
         IN  [n |-> n \div g, e |-> e \div g, d |-> d \div g]
QI(k) == [n |-> k, e |-> 0, d |-> 1]
QR(n, d) == Q(n, 0, d)
QAdd(a, b) ==
    Bind2(a, b, LAMBDA p, q : Q(p.n * q.d + q.n * p.d, p.e * q.d + q.e * p.d, p.d * q.d))
QNeg(a) == Bind(a, LAMBDA p : [n |-> -p.n, e |-> -p.e, d |-> p.d])
QSub(a, b) == QAdd(a, QNeg(b))
QMul(a, b) == Bind2(a, b, LAMBDA p, q : Q(p.n * q.n, p.n * q.e + p.e * q.n, p.d * q.d))
QSign(a) ==
    Bind(a, LAMBDA p :
        IF p.n > 0 THEN 1 ELSE IF p.n < 0 THEN -1
        ELSE IF p.e > 0 THEN 1 ELSE IF p.e < 0 THEN -1 ELSE 0)
QLt(a, b) == QSign(QSub(a, b)) < 0
QLe(a, b) == QSign(QSub(a, b)) <= 0
\* 1.0 / a for a finite a # 0 without a 1e-13 part
QInv(a) == Bind(a, LAMBDA p : IF p.n > 0 THEN Q(p.d, 0, p.n) ELSE Q(-p.d, 0, -p.n))
QDiv(a, b) == QMul(a, QInv(b))

\* mesh.rs:39; also the literal 1e-13 of scene.rs:40 and raycast.rs:194
EPSILON == [n |-> 0, e |-> 1, d |-> 1]

Fin(q) == [k |-> "fin", v |-> q]
PInf == [k |-> "pinf"]
NInf == [k |-> "ninf"]
NaN == [k |-> "nan"]

\* 1.0 / x in f64; the zeros of the directions used are +0.0
FInv(q) == Bind(q, LAMBDA p : IF p.n = 0 /\ p.e = 0 THEN PInf ELSE Fin(QInv(p)))

\* q * x in f64 for a finite q
FMul(q, x) ==
    Bind2(QSign(q), x, LAMBDA sgn, y :
        CASE y.k = "fin" -> Fin(QMul(q, y.v))
          [] y.k = "nan" -> NaN
          [] y.k = "pinf" -> IF sgn > 0 THEN PInf ELSE IF sgn < 0 THEN NInf ELSE NaN
          [] y.k = "ninf" -> IF sgn > 0 THEN NInf ELSE IF sgn < 0 THEN PInf ELSE NaN)

\* a < b in f64: false when either is NaN
FLt(a, b) ==
    Bind2(a, b, LAMBDA p, q :
        /\ p.k # "nan" /\ q.k # "nan"
        /\ \/ p.k = "ninf" /\ q.k # "ninf"
           \/ p.k = "fin" /\ q.k = "pinf"
           \/ p.k = "fin" /\ q.k = "fin" /\ QLt(p.v, q.v))
\* a >= b in f64
FGe(a, b) == Bind2(a, b, LAMBDA p, q : p.k # "nan" /\ q.k # "nan" /\ ~FLt(p, q))

\* f64::min and f64::max: the other operand when one is NaN
FMin(a, b) ==
    Bind2(a, b, LAMBDA p, q :
        IF p.k = "nan" THEN q ELSE IF q.k = "nan" THEN p ELSE IF FLt(q, p) THEN q ELSE p)
FMax(a, b) ==
    Bind2(a, b, LAMBDA p, q :
        IF p.k = "nan" THEN q ELSE IF q.k = "nan" THEN p ELSE IF FLt(p, q) THEN q ELSE p)

\* cgmath Vector3 / Point3
Vec(x, y, z) == [x |-> x, y |-> y, z |-> z]
VI(x, y, z) == Vec(QI(x), QI(y), QI(z))
VAdd(a, b) ==
    Bind2(a, b, LAMBDA p, q : Vec(QAdd(p.x, q.x), QAdd(p.y, q.y), QAdd(p.z, q.z)))
VSub(a, b) ==
    Bind2(a, b, LAMBDA p, q : Vec(QSub(p.x, q.x), QSub(p.y, q.y), QSub(p.z, q.z)))
VScale(a, k) ==
    Bind2(a, k, LAMBDA p, q : Vec(QMul(p.x, q), QMul(p.y, q), QMul(p.z, q)))
VNeg(a) == Bind(a, LAMBDA p : Vec(QNeg(p.x), QNeg(p.y), QNeg(p.z)))
Dot(a, b) ==
    Bind2(a, b, LAMBDA p, q :
        QAdd(QAdd(QMul(p.x, q.x), QMul(p.y, q.y)), QMul(p.z, q.z)))
Cross(a, b) ==
    Bind2(a, b, LAMBDA p, q :
        Vec(QSub(QMul(p.y, q.z), QMul(p.z, q.y)),
            QSub(QMul(p.z, q.x), QMul(p.x, q.z)),
            QSub(QMul(p.x, q.y), QMul(p.y, q.x))))

\* The square root of a rational whose numerator and denominator are squares.
ISqrt(k) == CHOOSE r \in 0..k : r * r = k
QSqrt(a) == Bind(a, LAMBDA p : QR(ISqrt(p.n), ISqrt(p.d)))

\* InnerSpace::normalize
Normalize(v) == Bind(v, LAMBDA p : VScale(p, QInv(QSqrt(Dot(p, p)))))

----------------------------------------------------------------------------
(* Rays, objects and Scene.trace (src/raycast.rs, src/objects, src/scene.rs) *)

\* cgmath Quaternion<f64>.  [s, v, m] is the quaternion (s + v) / sqrt(m): what
\* normalize makes of s + v is kept exactly, with m the squared magnitude.
Quaternion(s, xi, yj, zk) == [s |-> QI(s), v |-> VI(xi, yj, zk), m |-> QI(1)]
\* Quaternion::one(), Quaternion::zero()
Quaternion_one == Quaternion(1, 0, 0, 0)
Quaternion_zero == Quaternion(0, 0, 0, 0)
\* InnerSpace::normalize of a quaternion that is not zero
Quaternion_normalize(q) ==
    [s |-> q.s, v |-> q.v, m |-> QAdd(QMul(q.s, q.s), Dot(q.v, q.v))]

\* Rotation3::rotate_point of a Quaternion (cgmath, Quaternion * Vector3):
\* v.cross(v.cross(p) + p * s) * 2 + p
rotate_point(rot, p) ==
    Bind2(rot, p, LAMBDA q, vec :
        Bind(VAdd(Cross(q.v, vec), VScale(vec, q.s)), LAMBDA tmp :
            VAdd(VScale(Cross(q.v, tmp), QDiv(QI(2), q.m)), vec)))

\* WorldPosition::translate
translate(position, vec) ==
    VAdd(VScale(rotate_point(position.rotation, vec), position.scale), position.position)

\* The Ray literal of create_prime, create_reflection and create_shadow_ray.
MkRay(origin, direction, ray_type) ==
    Bind(direction, LAMBDA dir :
        [origin |-> origin, direction |-> dir,
         inv_direction |-> [x |-> FInv(dir.x), y |-> FInv(dir.y), z |-> FInv(dir.z)],
         ray_type |-> ray_type])

\* IntersectionResult::reflection_origin
reflection_origin(int) == VAdd(int.hit_point, VScale(int.surface_normal, EPSILON))

\* Ray::create_shadow_ray
create_shadow_ray(direction_to_light, int) ==
    MkRay(reflection_origin(int), direction_to_light, "Shadow")

\* BoundingBox::intersects
BoundingBox_intersects(bb, ray, position) ==
    Bind2(translate(position, bb.min), translate(position, bb.max), LAMBDA pmin, pmax :
    Bind2(FMul(QSub(pmin.x, ray.origin.x), ray.inv_direction.x),
          FMul(QSub(pmax.x, ray.origin.x), ray.inv_direction.x), LAMBDA tx1, tx2 :
    Bind2(FMul(QSub(pmin.y, ray.origin.y), ray.inv_direction.y),
          FMul(QSub(pmax.y, ray.origin.y), ray.inv_direction.y), LAMBDA ty1, ty2 :
    Bind2(FMul(QSub(pmin.z, ray.origin.z), ray.inv_direction.z),
          FMul(QSub(pmax.z, ray.origin.z), ray.inv_direction.z), LAMBDA tz1, tz2 :
        LET tmin0 == FMin(tx1, tx2)
            tmax0 == FMax(tx1, tx2)
            tmin1 == FMax(tmin0, FMin(ty1, ty2))
            tmax1 == FMin(tmax0, FMax(ty1, ty2))
        IN  Bind2(FMax(tmin1, FMin(tz1, tz2)), FMin(tmax1, FMax(tz1, tz2)),
                  LAMBDA tmin, tmax : FGe(tmax, tmin) /\ FGe(tmax, Fin(QI(0))))))))

\* Triangle::surface_normal for a triangle without vertex normals
surface_normal(tri, position) ==
    LET vec_a == VSub(tri.p2, tri.p1)
        vec_b == VSub(tri.p3, tri.p1)
    IN  Normalize(Cross(vec_a, vec_b))

\* Triangle::intersects
Triangle_intersects(tri, ray, position) ==
    Bind3(translate(position, tri.p1), translate(position, tri.p2),
          translate(position, tri.p3), LAMBDA point_0, point_1, point_2 :
    Bind2(VSub(point_1, point_0), VSub(point_2, point_0), LAMBDA edge_1, edge_2 :
    Bind(Cross(ray.direction, edge_2), LAMBDA pvec :
    Bind(Dot(edge_1, pvec), LAMBDA det :
        IF QLt(det, EPSILON) THEN None
        ELSE
    Bind(VSub(ray.origin, point_0), LAMBDA tvec :
    Bind(Dot(tvec, pvec), LAMBDA u :
        IF QLt(u, QI(0)) \/ QLt(det, u) THEN None
        ELSE
    Bind(Cross(tvec, edge_1), LAMBDA qvec :
    Bind(Dot(ray.direction, qvec), LAMBDA v :
        IF QLt(v, QI(0)) \/ QLt(det, QAdd(u, v)) THEN None
        ELSE LET t == Dot(edge_2, qvec)
                 inv_det == QInv(det)
             IN  Some([normal |-> surface_normal(tri, position),
                       t |-> QMul(t, inv_det)])))))))))

\* Iterator::min_by, Iterator::min: the index of the least key, the first of
\* equal ones (the fold keeps what it has unless the next is less).
RECURSIVE MinFold(_, _)
MinFold(keys, k) ==
    IF k = 1 THEN 1
    ELSE Bind(MinFold(keys, k - 1), LAMBDA acc :
            IF QLt(keys[k], keys[acc]) THEN k ELSE acc)

\* filter_map over the triangles: the hits, in the order of the triangles
RECURSIVE TriangleHits(_, _, _, _)
TriangleHits(triangles, ray, position, k) ==
    IF k = 0 THEN <<>>
    ELSE Bind2(TriangleHits(triangles, ray, position, k - 1),
               Triangle_intersects(triangles[k], ray, position), LAMBDA rest, h :
            IF h.some THEN Append(rest, h.val) ELSE rest)

\* The triangle search of Mesh::intersect, mesh.rs:188-191
NearestTriangle(triangles, ray, position) ==
    Bind(TriangleHits(triangles, ray, position, Len(triangles)), LAMBDA found :
        IF found = <<>> THEN None
        ELSE Bind([i \in DOMAIN found |-> found[i].t], LAMBDA keys :
                Some(found[MinFold(keys, Len(found))])))

\* Mesh::intersect
Mesh_intersect(mesh, ray, position) ==
    IF ~BoundingBox_intersects(mesh.bb, ray, position) THEN None
    ELSE NearestTriangle(mesh.triangles, ray, position)

\* Mesh::create_bounding_box
RECURSIVE BoxFold(_, _)
BoxFold(vertices, k) ==
    IF k = 0
    THEN [min |-> vertices[1], max |-> vertices[1]]
    ELSE Bind2(BoxFold(vertices, k - 1), vertices[k], LAMBDA b, v :
            LET lo(a, c) == IF QLt(c, a) THEN c ELSE a
                hi(a, c) == IF QLt(a, c) THEN c ELSE a
            IN  [min |-> Vec(lo(b.min.x, v.x), lo(b.min.y, v.y), lo(b.min.z, v.z)),
                 max |-> Vec(hi(b.max.x, v.x), hi(b.max.y, v.y), hi(b.max.z, v.z))])

create_bounding_box(obj) == BoxFold(obj.vertices, Len(obj.vertices))

\* Mesh::build_triangles for faces without normals
build_triangles(obj) ==
    [i \in DOMAIN obj.faces |->
        [p1 |-> obj.vertices[obj.faces[i][1]],
         p2 |-> obj.vertices[obj.faces[i][2]],
         p3 |-> obj.vertices[obj.faces[i][3]]]]

\* MeshTreeNode::Leaf, mesh.rs:159-162
Leaf(triangles) == [kind |-> "Leaf", triangles |-> triangles]

\* Mesh::create
Mesh_create(obj) ==
    [kind |-> "Mesh", bb |-> create_bounding_box(obj), triangles |-> build_triangles(obj),
     root |-> Leaf(build_triangles(obj))]

\* Structure for Mesh: get_intersection
Mesh_get_intersection(mesh, ray, position) ==
    Bind(Mesh_intersect(mesh, ray, position), LAMBDA r :
        IF r.some
        THEN Some([distance |-> r.val.t,
                   hit_point |-> VAdd(ray.origin, VScale(ray.direction, r.val.t)),
                   surface_normal |-> r.val.normal])
        ELSE None)

\* A plane that is hit from either side.
Plane_intersect_TwoSided(plane, ray, position) ==
    Bind(Dot(plane.normal, ray.direction), LAMBDA denom :
        IF Abs(denom.n) * 100000 > denom.d \div 100000
        THEN LET v == VSub(position.position, ray.origin)
             IN  Bind(QDiv(Dot(v, plane.normal), denom), LAMBDA distance :
                    IF QLe(QI(0), distance) THEN Some(distance) ELSE None)
        ELSE None)

\* Plane::intersect, plane.rs:16-27.  denom carries no 1e-13 part; it is
\* compared with 1e-10.
Plane_intersect(plane, ray, position) ==
    Bind(Dot(plane.normal, ray.direction), LAMBDA denom :
        IF denom.n * 100000 > denom.d \div 100000
        THEN LET v == VSub(position.position, ray.origin)
             IN  Bind(QDiv(Dot(v, plane.normal), denom), LAMBDA distance :
                    IF QLe(QI(0), distance) THEN Some(distance) ELSE None)
        ELSE None)

\* Structure for Plane: get_intersection
Plane_get_intersection(plane, ray, position) ==
    Bind(Plane_intersect(plane, ray, position), LAMBDA r :
        IF r.some
        THEN Some([distance |-> r.val,
                   hit_point |-> VAdd(ray.origin, VScale(ray.direction, r.val)),
                   surface_normal |-> VNeg(plane.normal)])
        ELSE None)

\* Plane::create
Plane_create(normal) == [kind |-> "Plane", normal |-> normal]

\* Sphere::create
Sphere_create(radius) == [kind |-> "Sphere", radius |-> radius]

\* Sphere::intersect, sphere.rs:17-37.  The inputs drawn give the square root
\* a rational square.
Sphere_intersect(sphere, ray, position, scale) ==
    Bind(VSub(position.position, ray.origin), LAMBDA l :
    Bind(Dot(l, ray.direction), LAMBDA adj2 :
    Bind2(QSub(Dot(l, l), QMul(adj2, adj2)),
          QMul(QMul(sphere.radius, scale), QMul(sphere.radius, scale)),
          LAMBDA d2, radius2 :
        IF QLt(radius2, d2) THEN None
        ELSE
    Bind(QSqrt(QSub(radius2, d2)), LAMBDA thc :
    Bind2(QSub(adj2, thc), QAdd(adj2, thc), LAMBDA t0, t1 :
        IF QLt(t0, QI(0)) /\ QLt(t1, QI(0)) THEN None
        ELSE Some(IF QLt(t0, t1) THEN t0 ELSE t1))))))

\* Structure for Sphere: get_intersection (sphere.rs:57-73), with the scale of
\* the object's WorldPosition
Sphere_get_intersection(sphere, ray, position) ==
    Bind(Sphere_intersect(sphere, ray, position, position.scale), LAMBDA r :
        IF r.some
        THEN Bind(VAdd(ray.origin, VScale(ray.direction, r.val)), LAMBDA hit_point :
                Some([distance |-> r.val,
                      hit_point |-> hit_point,
                      surface_normal |-> Normalize(VSub(hit_point, position.position))]))
        ELSE None)

\* Object::reflectivity_at
reflectivity_at(material) ==
    IF material.surface.kind = "Reflective"
    THEN Some(material.surface.reflectivity) ELSE None

\* Object::intersect with IntersectionResult::create
Object_intersect(object, ray) ==
    Bind(IF object.structure.kind = "Mesh"
         THEN Mesh_get_intersection(object.structure, ray, object.position)
         ELSE IF object.structure.kind = "Sphere"
         THEN Sphere_get_intersection(object.structure, ray, object.position)
         ELSE Plane_get_intersection(object.structure, ray, object.position),
         LAMBDA intersection :
        IF intersection.some
        THEN Some([distance |-> intersection.val.distance,
                   surface_normal |-> intersection.val.surface_normal,
                   hit_point |-> intersection.val.hit_point,
                   surface |-> [reflectivity |-> reflectivity_at(object.material),
                                albedo |-> object.material.albedo,
                                color |-> object.material.color]])
        ELSE None)

\* Scene::trace, scene.rs:37-39: what every object answers to the ray, in the
\* order of Scene.objects
Hits(objects, ray) == [i \in DOMAIN objects |-> Object_intersect(objects[i], ray)]

\* filter_map of Scene::trace: the intersections found, each with the index of
\* its object in Scene.objects
RECURSIVE Found(_, _)
Found(hs, k) ==
    IF k = 0 THEN <<>>
    ELSE IF hs[k].some
         THEN Append(Found(hs, k - 1), [obj |-> k, int |-> hs[k].val])
         ELSE Found(hs, k - 1)

\* An Iterator::min that keeps the last of equal elements.
IterMin_KeepsLast(found) ==
    CHOOSE i \in DOMAIN found :
        /\ \A j \in DOMAIN found : QLe(found[i].int.distance, found[j].int.distance)
        /\ \A j \in DOMAIN found :
              found[j].int.distance = found[i].int.distance => j <= i

\* Iterator::min with Ord for IntersectionResult (raycast.rs:157-164)
IterMin(found) ==
    Bind([i \in DOMAIN found |-> found[i].int.distance], LAMBDA keys :
        MinFold(keys, Len(keys)))

\* A Scene::trace that lets every intersection in front of the ray through.
trace_GuardZero(hs) ==
    Bind(SelectSeq(Found(hs, Len(hs)), LAMBDA h : QLt(QI(0), h.int.distance)),
         LAMBDA kept : IF kept = <<>> THEN None ELSE Some(kept[IterMin(kept)]))

\* Scene::trace, scene.rs:39-41, over the answers hs of the objects
trace(hs) ==
    Bind(SelectSeq(Found(hs, Len(hs)), LAMBDA h : QLt(EPSILON, h.int.distance)),
         LAMBDA kept : IF kept = <<>> THEN None ELSE Some(kept[IterMin(kept)]))

\* ObjectBuilder::create_for and its setters
DefaultMaterial ==
    [color |-> from_rgb(Rat(1, 2), Rat(1, 2), Rat(1, 2)), albedo |-> Rat(1, 10),
     surface |-> Diffuse]
RotOne == Quaternion_one

\* A create_for that starts from the zero quaternion.
create_for_ZeroRotation(structure) ==
    [material |-> DefaultMaterial,
     position |-> VI(0, 0, 0),
     rotation |-> Quaternion_zero,
     structure |-> structure,
     scale |-> QI(1)]

create_for(structure) ==
    [material |-> DefaultMaterial,
     position |-> VI(0, 0, 0),
     rotation |-> RotOne,
     structure |-> structure,
     scale |-> QI(1)]
at_position(builder_, p) == [builder_ EXCEPT !.position = p]
scale_to(builder_, k) == [builder_ EXCEPT !.scale = k]
rotation_to(builder_, rot) == [builder_ EXCEPT !.rotation = Quaternion_normalize(rot)]
with_material(builder_, material) == [builder_ EXCEPT !.material = material]

\* impl From<ObjectBuilder<E>> for Object
Object_from(builder_) ==
    [material |-> builder_.material,
     structure |-> builder_.structure,
     position |-> [position |-> builder_.position,
                   rotation |-> builder_.rotation,
                   scale |-> builder_.scale]]

----------------------------------------------------------------------------
(* Building a scene and tracing rays through it.                            *)

\* Largest number of objects added to a scene.
MaxSceneObjects == 2

\* The triangle of the tests of mesh.rs, the same with the other winding, and
\* two such triangles one above the other (obj files without normals).
ObjTri ==
    [vertices |-> <<VI(2, 0, 2), VI(2, 0, -2), VI(-2, 0, -2)>>,
     faces |-> << <<1, 2, 3>> >>]
ObjTriRev ==
    [vertices |-> <<VI(2, 0, 2), VI(2, 0, -2), VI(-2, 0, -2)>>,
     faces |-> << <<3, 2, 1>> >>]
ObjStack ==
    [vertices |-> <<VI(2, 0, 2), VI(2, 0, -2), VI(-2, 0, -2),
                    VI(2, 1, 2), VI(2, 1, -2), VI(-2, 1, -2)>>,
     faces |-> << <<1, 2, 3>>, <<4, 5, 6>> >>]

\* The quaternion 2 + k: normalized, the rotation about the z axis by the
\* angle of cosine 3/5 and sine 4/5.
RotZ345 == Quaternion(2, 0, 0, 1)

Placed(structure) ==
    {Object_from(create_for(structure)),
     Object_from(at_position(create_for(structure), VI(0, -1, 0))),
     Object_from(scale_to(create_for(structure), QI(2))),
     Object_from(rotation_to(create_for(structure), RotZ345))}

ObjectPool ==
    Placed(Mesh_create(ObjTri))
    \cup {Object_from(create_for(Mesh_create(ObjTriRev))),
          Object_from(create_for(Mesh_create(ObjStack)))}
    \cup {Object_from(create_for(Plane_create(VI(0, -1, 0)))),
          Object_from(at_position(create_for(Plane_create(VI(0, -1, 0))), VI(0, -1, 0)))}

Directions == {VI(0, -1, 0), VI(0, 1, 0), Vec(QR(2, 3), QR(-2, 3), QR(1, 3))}
LightDirections == {VI(0, -1, 0), VI(0, 1, 0)}
Origins == {VI(0, 1, 0), VI(0, -1, 0), VI(0, 3, 0), VI(2, 1, 0)}

InitTrace ==
    /\ RenderUnused
    /\ probe = NoProbe
    /\ LitUnused
    /\ PixelUnused
    /\ CastUnused
    /\ TraceUnused
    /\ UnitUnused

\* SceneBuilder::add_object
AddObject(obj) ==
    /\ scn = None
    /\ Len(sbObjects) < MaxSceneObjects
    /\ sbObjects' = Append(sbObjects, obj)
    /\ UNCHANGED <<sbLights, scn, tray, objHits, traced, shadowOf>>

\* A finish that hands the lights over last added first.
Finish_LightsReversed ==
    /\ scn = None
    /\ scn' = Some([objects |-> sbObjects,
                    lights |-> [i \in DOMAIN sbLights |->
                                   sbLights[Len(sbLights) + 1 - i]]])
    /\ UNCHANGED <<sbObjects, sbLights, tray, objHits, traced, shadowOf>>

\* SceneBuilder::finish
Finish ==
    /\ scn = None
    /\ scn' = Some([objects |-> sbObjects, lights |-> sbLights])
    /\ UNCHANGED <<sbObjects, sbLights, tray, objHits, traced, shadowOf>>

\* Scene::trace for a ray given by its origin and direction
Trace(origin, direction) ==
    /\ scn # None /\ tray = None
    /\ \E r \in {MkRay(origin, direction, "Prime")} :
        /\ tray' = Some(r)
        /\ objHits' = Hits(scn.val.objects, r)
        /\ traced' = trace(objHits')
    /\ UNCHANGED <<sbObjects, sbLights, scn, shadowOf>>

\* The shadow ray of shade_diffuse (render.rs:20-22): created from the
\* intersection found, towards a light, and traced.
TraceShadow(direction_to_light) ==
    /\ tray # None /\ tray.val.ray_type # "Shadow" /\ traced # None
    /\ \E r \in {create_shadow_ray(direction_to_light, traced.val.int)} :
        /\ tray' = Some(r)
        /\ objHits' = Hits(scn.val.objects, r)
        /\ traced' = trace(objHits')
    /\ shadowOf' = Some(traced.val.int)
    /\ UNCHANGED <<sbObjects, sbLights, scn>>

NextTrace ==
    \/ \E obj \in ObjectPool : AddObject(obj) /\ UNCHANGED <<renderVars, probe, pixelVars, litVars, castVars, unitVars>>
    \/ Finish /\ UNCHANGED <<renderVars, probe, pixelVars, litVars, castVars, unitVars>>
    \/ \E o \in Origins, d \in Directions :
          Trace(o, d) /\ UNCHANGED <<renderVars, probe, pixelVars, litVars, castVars, unitVars>>
    \/ \E d \in LightDirections : TraceShadow(d) /\ UNCHANGED <<renderVars, probe, pixelVars, litVars, castVars, unitVars>>

SpecTrace == InitTrace /\ [][NextTrace]_vars

----------------------------------------------------------------------------
(* Scene.trace and the mesh: C6 to C10                                      *)

\* The objects whose answer to the ray lies past the guard distance 1e-13.
PastGuard == {i \in DOMAIN objHits :
                objHits[i].some /\ QLt(EPSILON, objHits[i].val.distance)}

\* C6 (as amended): Scene.trace returns None when no object's intersection
\* has a distance greater than 1e-13, and otherwise the intersection of least
\* distance among those that have; no object that was not returned has a
\* smaller intersection distance greater than 1e-13.
C6_NearestPastGuard ==
    tray # None =>
        IF PastGuard = {} THEN traced = None
        ELSE /\ traced # None
             /\ traced.val.obj \in PastGuard
             /\ traced.val.int = objHits[traced.val.obj].val
             /\ \A i \in PastGuard :
                   QLe(traced.val.int.distance, objHits[i].val.distance)

\* C6 as stated: the same, and no object that was not returned has a smaller
\* positive intersection distance.
C6_NoSmallerPositive ==
    /\ C6_NearestPastGuard
    /\ (tray # None /\ traced # None) =>
          \A i \in DOMAIN objHits :
              (i # traced.val.obj /\ objHits[i].some
                 /\ QLt(QI(0), objHits[i].val.distance))
              => ~QLt(objHits[i].val.distance, traced.val.int.distance)

\* A ray leaves a surface point from whose object it is 1e-13 away, pointing
\* back at it; that object is passed over and the one behind it is returned.
C6_Witness ==
    /\ tray # None /\ traced # None
    /\ \E i \in DOMAIN objHits :
          /\ i # traced.val.obj /\ objHits[i].some
          /\ QLt(QI(0), objHits[i].val.distance)
          /\ QLe(objHits[i].val.distance, EPSILON)
          /\ QLt(EPSILON, traced.val.int.distance)

\* C7: of the objects that intersect the ray at the distance returned, the
\* one Scene.trace returns is the one added to the scene first; the scene
\* holds the objects in the order of add_object.
C7_TieGoesToFirstAdded ==
    /\ scn # None => scn.val.objects = sbObjects
    /\ (tray # None /\ traced # None) =>
          \A i \in DOMAIN objHits :
              (objHits[i].some
                 /\ objHits[i].val.distance = traced.val.int.distance)
              => traced.val.obj <= i

\* Two different objects are hit at the same least distance.
C7_Witness ==
    /\ tray # None /\ traced # None
    /\ \E i \in DOMAIN objHits :
          /\ i # traced.val.obj
          /\ sbObjects[i] # sbObjects[traced.val.obj]
          /\ objHits[i].some
          /\ objHits[i].val.distance = traced.val.int.distance

\* C8: for every mesh of the scene and the ray traced, what the mesh answered
\* (bounding box test, then the triangle search) is what the search over all
\* its triangles alone gives.
C8_BoxNeverRejectsHit ==
    tray # None =>
        \A i \in DOMAIN objHits :
            scn.val.objects[i].structure.kind = "Mesh" =>
                LET brute == NearestTriangle(scn.val.objects[i].structure.triangles,
                                             tray.val, scn.val.objects[i].position)
                IN  /\ objHits[i].some = brute.some
                    /\ objHits[i].some =>
                          /\ objHits[i].val.distance = brute.val.t
                          /\ objHits[i].val.surface_normal = brute.val.normal

\* The ray's line passes through the triangle and is not parallel to it: the
\* test of the specification, which rejects on |det| < EPSILON and on
\* barycentric coordinates outside the triangle.
LineThrough(tri, ray, position) ==
    LET point_0 == translate(position, tri.p1)
        edge_1 == VSub(translate(position, tri.p2), point_0)
        edge_2 == VSub(translate(position, tri.p3), point_0)
        pvec == Cross(ray.direction, edge_2)
        det == Dot(edge_1, pvec)
        tvec == VSub(ray.origin, point_0)
        sgn == QI(QSign(det))
        u == QMul(sgn, Dot(tvec, pvec))
        v == QMul(sgn, Dot(ray.direction, Cross(tvec, edge_1)))
        mag == QMul(sgn, det)
    IN  /\ ~QLt(mag, EPSILON)
        /\ QLe(QI(0), u) /\ QLe(u, mag)
        /\ QLe(QI(0), v) /\ QLe(QAdd(u, v), mag)

TestRay == MkRay(VI(0, -1, 0), VI(0, 1, 0), "Prime")

\* C9: a triangle whose plane the ray's line crosses inside the triangle is
\* reported as hit whatever its winding, and the mesh of the one triangle
\* (2,0,2), (2,0,-2), (-2,0,-2) answers the ray from (0,-1,0) along +Y.
C9_EitherWinding ==
    tray # None =>
        /\ \A i \in DOMAIN objHits :
              scn.val.objects[i].structure.kind = "Mesh" =>
                  \A k \in DOMAIN scn.val.objects[i].structure.triangles :
                      LineThrough(scn.val.objects[i].structure.triangles[k],
                                  tray.val, scn.val.objects[i].position)
                      => Triangle_intersects(
                             scn.val.objects[i].structure.triangles[k],
                             tray.val, scn.val.objects[i].position).some
        /\ (sbObjects = <<Object_from(create_for(Mesh_create(ObjTri)))>> /\ tray.val = TestRay)
              => objHits[1].some

\* The scene's only object is a mesh of one triangle.
OneTriangleScene ==
    /\ scn # None /\ Len(scn.val.objects) = 1
    /\ scn.val.objects[1].structure.kind = "Mesh"
    /\ Len(scn.val.objects[1].structure.triangles) = 1

\* C10: in a scene of one single-triangle mesh, Scene.trace returns Some for
\* the shadow ray created from an intersection on the triangle in the
\* direction of its surface normal, and for a ray that starts below the
\* triangle and points at it.
C10_ShadowRayCollides ==
    (OneTriangleScene /\ tray # None) =>
        /\ (shadowOf # None /\ tray.val.direction = shadowOf.val.surface_normal)
              => traced # None
        /\ (shadowOf = None
              /\ LineThrough(scn.val.objects[1].structure.triangles[1], tray.val,
                             scn.val.objects[1].position)
              /\ \A p \in {scn.val.objects[1].structure.triangles[1].p1,
                            scn.val.objects[1].structure.triangles[1].p2,
                            scn.val.objects[1].structure.triangles[1].p3} :
                    QLt(tray.val.origin.y, translate(scn.val.objects[1].position, p).y)
              /\ QLt(QI(0), tray.val.direction.y))
              => traced # None

----------------------------------------------------------------------------
(* A run of the program: a camera is given, a scene is built with           *)
(* SceneBuilder, and render draws it, every worker filling its tile pixel   *)
(* by pixel (render.rs:131-137).                                            *)

\* Largest number of objects added to the scene of a run.
MaxRunObjects == 1

\* An obj file with vertices and no face, and one with nothing in it.
ObjNoFaces ==
    [vertices |-> <<VI(2, 0, 2), VI(2, 0, -2), VI(-2, 0, -2)>>, faces |-> <<>>]
ObjNoVertices == [vertices |-> <<>>, faces |-> <<>>]

ObjFiles == {ObjTri, ObjNoFaces, ObjNoVertices}

\* Light::Directional(DirectionalLight { direction, color, intensity }) with a
\* white colour and the intensity PI
DirectionalLight(direction) ==
    [direction |-> direction, color |-> from_rgb(RInt(1), RInt(1), RInt(1)),
     intensityOverPi |-> RInt(1)]

\* Camera { width, height, fov }: one or two tiles, an empty image, and a field
\* of view of 90, 0 and -90 degrees.
RunCameras ==
    {[width |-> 0, height |-> 1, fov |-> 90], [width |-> 1, height |-> 0, fov |-> 90],
     [width |-> 2, height |-> 1, fov |-> 90], [width |-> 2, height |-> 1, fov |-> 0],
     [width |-> 2, height |-> 1, fov |-> -90], [width |-> 129, height |-> 1, fov |-> 90]}

InitRun ==
    /\ camera \in RunCameras
    /\ pc = "build"
    /\ cols = 0 /\ rows = 0 /\ jobs = 0 /\ job_idx = 0
    /\ queue = <<>>
    /\ workers = [w \in 1..NumWorkers |-> Idle]
    /\ chan = <<>>
    /\ counter = 0
    /\ dest = new_rgb8(0, 0)
    /\ hist = <<>>
    /\ probe = NoProbe
    /\ LitUnused
    /\ PixelUnused
    /\ CastUnused
    /\ TraceUnused
    /\ UnitUnused

\* obj.vertices.get(0).unwrap() of Mesh::create_bounding_box (mesh.rs:195)
\* panics when the obj file has no vertex.
create_bounding_box_panics(obj) == obj.vertices = <<>>

\* add_object(ObjectBuilder::create_for(Mesh::create(obj)).into())
AddMesh(obj) ==
    /\ pc = "build"
    /\ Len(sbObjects) < MaxRunObjects
    /\ IF create_bounding_box_panics(obj)
       THEN /\ pc' = "panic"
            /\ UNCHANGED traceVars
       ELSE /\ AddObject(Object_from(create_for(Mesh_create(obj))))
            /\ pc' = pc
    /\ UNCHANGED <<camera, cols, rows, jobs, job_idx, queue, workers, chan,
                   counter, dest, hist>>

\* SceneBuilder::add_light; a scene is given as many lights as there are
\* directions to choose from, at most.
AddLight(light) ==
    /\ scn = None
    /\ Len(sbLights) < Cardinality(LightDirections)
    /\ sbLights' = Append(sbLights, light)
    /\ UNCHANGED <<sbObjects, scn, tray, objHits, traced, shadowOf>>

\* SceneBuilder::finish, and the scene and the camera are handed to render
FinishRun ==
    /\ pc = "build"
    /\ Finish
    /\ pc' = "start"
    /\ UNCHANGED <<camera, cols, rows, jobs, job_idx, queue, workers, chan,
                   counter, dest, hist>>

\* GenericImage::put_pixel(x, y, colour of the sensor position (sx, sy))
put_pixel(img, x, y, sx, sy) ==
    [img EXCEPT !.layers =
        Append(@, [x |-> x, y |-> y, w |-> 1, h |-> 1, ox |-> sx, oy |-> sy])]

\* A pool thread takes the next closure and starts it (render.rs:125-129);
\* the loops of render.rs:131-132 stand at x = 0, y = 0.
Execute(w) ==
    /\ workers[w].st = "idle"
    /\ queue # <<>>
    /\ LET job == Head(queue)
           tile_width == TileWidth(job.mx, job.sw)
           tile_height == TileHeight(job.my, job.sh)
       IN  /\ workers' = [workers EXCEPT ![w] =
                [st |-> IF tile_width = 0 \/ tile_height = 0
                        THEN "filled" ELSE "running",
                 job |-> job, image |-> new_rgb8(tile_width, tile_height),
                 x |-> 0, y |-> 0]]
           /\ hist' = [hist EXCEPT ![job.idx].run = @ + 1]
    /\ queue' = Tail(queue)
    /\ UNCHANGED <<camera, pc, cols, rows, jobs, job_idx, chan, counter, dest>>

\* One turn of the inner loop (render.rs:133-135), and the loops move on.
PutPixel(w) ==
    /\ workers[w].st = "running"
    /\ LET me == workers[w]
           lastY == me.y + 1 >= me.image.height
           lastX == me.x + 1 >= me.image.width
       IN  workers' = [workers EXCEPT ![w] =
              [me EXCEPT !.image = put_pixel(@, me.x, me.y,
                                             me.job.mx + me.x, me.job.my + me.y),
                         !.y = IF lastY THEN 0 ELSE @ + 1,
                         !.x = IF lastY THEN @ + 1 ELSE @,
                         !.st = IF lastY /\ lastX THEN "filled" ELSE @]]
    /\ UNCHANGED <<camera, pc, cols, rows, jobs, job_idx, queue, chan, counter,
                   dest, hist>>

NextRun ==
    \/ \E obj \in ObjFiles : AddMesh(obj) /\ UNCHANGED <<probe, pixelVars, litVars, castVars, unitVars>>
    \/ \E d \in LightDirections :
          /\ pc = "build" /\ AddLight(DirectionalLight(d))
          /\ UNCHANGED <<renderVars, probe, pixelVars, litVars, castVars, unitVars>>
    \/ FinishRun /\ UNCHANGED <<probe, pixelVars, litVars, castVars, unitVars>>
    \/ RenderStart /\ UNCHANGED <<probe, pixelVars, litVars, castVars, traceVars, unitVars>>
    \/ Submit /\ UNCHANGED <<probe, pixelVars, litVars, castVars, traceVars, unitVars>>
    \/ SubmitDone /\ UNCHANGED <<probe, pixelVars, litVars, castVars, traceVars, unitVars>>
    \/ \E w \in 1..NumWorkers : Execute(w) /\ UNCHANGED <<probe, pixelVars, litVars, castVars, traceVars, unitVars>>
    \/ \E w \in 1..NumWorkers : PutPixel(w) /\ UNCHANGED <<probe, pixelVars, litVars, castVars, traceVars, unitVars>>
    \/ \E w \in 1..NumWorkers : Send(w) /\ UNCHANGED <<probe, pixelVars, litVars, castVars, traceVars, unitVars>>
    \/ Receive /\ UNCHANGED <<probe, pixelVars, litVars, castVars, traceVars, unitVars>>
    \/ Return /\ UNCHANGED <<probe, pixelVars, litVars, castVars, traceVars, unitVars>>

SpecRun == InitRun /\ [][NextRun]_vars

----------------------------------------------------------------------------
(* Configuration errors: C11                                                *)

\* The configurations the specification calls invalid: an image without
\* pixels, a field of view that is not positive, a mesh without triangles.
Misconfigured ==
    \/ camera.width = 0 \/ camera.height = 0
    \/ camera.fov <= 0
    \/ \E i \in DOMAIN sbObjects :
          /\ sbObjects[i].structure.kind = "Mesh"
          /\ sbObjects[i].structure.triangles = <<>>

\* C11: a misconfigured scene is rejected at construction with an error value
\* (the program does not panic), finish returns no Scene for it and no tile
\* job is ever submitted for it.
C11_MisconfiguredRejected ==
    /\ pc # "panic"
    /\ Misconfigured => (scn = None /\ hist = <<>>)

----------------------------------------------------------------------------
(* The pixels of the image render returns: C12                              *)

\* Pixel::to_rgb of an Rgba<u8>, Pixel::to_rgba of an Rgb<u8> (image crate):
\* the alpha byte is dropped, and comes back as the opaque 255.
to_rgb(rgba) == SubSeq(rgba, 1, 3)
to_rgba(rgb) == Append(rgb, 255)

\* super_sample(sx, sy, scene, camera).unwrap_or(black), render.rs:90-101 and
\* 133-134.  A scene without objects answers None to every trace, so the five
\* samples are black.  For any other scene the three colour bytes are left
\* open, each as a value of its own; the alpha byte of every sample is the 0
\* of to_rgba8 (types.rs:31), and so is their average.
super_sample(scene, sx, sy) ==
    LET black == to_rgba8(BlackColor)
        blacks == average_color([i \in 1..5 |-> black])
    IN  IF scene.objects = <<>> THEN blacks
        ELSE [ch \in 1..4 |-> IF ch = 4 THEN blacks[4] ELSE <<PixelValue(sx, sy), ch>>]

\* GenericImage::get_pixel of a DynamicImage made by new_rgb8: the buffer
\* holds Rgb<u8>, zeroed at first, put_pixel stores pixel.to_rgb() and
\* get_pixel answers to_rgba() of what is stored.
get_pixel(img, px, py, scene) ==
    LET v == PixelAt(img, px, py)
    IN  IF v = Blank THEN to_rgba(<<0, 0, 0>>)
        ELSE to_rgba(to_rgb(super_sample(scene, v[2], v[3])))

\* C12: every pixel of the image render returns has the alpha byte 0, and
\* for a scene without objects and lights every pixel reads RGBA(0,0,0,0).
C12_AlphaZero ==
    pc = "done" =>
        \A px \in 0..(dest.width - 1), py \in 0..(dest.height - 1) :
            /\ get_pixel(dest, px, py, scn.val)[4] = 0
            /\ (scn.val.objects = <<>> /\ scn.val.lights = <<>>)
                  => get_pixel(dest, px, py, scn.val) = <<0, 0, 0, 0>>

----------------------------------------------------------------------------
(* The primitives asked along the axes: C13                                 *)

\* A sphere of radius 5 about the origin, a unit sphere scaled to 5 about
\* (0,0,-10), the plane through (0,0,-10) that faces +z, a plane through
\* (0,-10,0) whose normal (0,-1e-13,0) gives the rays along -y a denom of 1e-13,
\* and the triangle of the tests.
PrimitivePool ==
    {Object_from(create_for(Sphere_create(QI(5)))),
     Object_from(scale_to(at_position(create_for(Sphere_create(QI(1))), VI(0, 0, -10)), QI(5))),
     Object_from(at_position(create_for(Plane_create(VI(0, 0, -1))), VI(0, 0, -10))),
     Object_from(at_position(create_for(Plane_create(Vec(QI(0), QNeg(EPSILON), QI(0)))),
                             VI(0, -10, 0))),
     Object_from(create_for(Mesh_create(ObjTri)))}

\* Ray origins whose distance from the z axis is 0, 3, 4, 5 or 6, in front of
\* the spheres, inside them and behind them; rays along the z and y axes.
AxisOrigins == {VI(a, 0, z) : a \in {0, 3, 4, 5, 6}, z \in {10, 0, -10, -20}}
AxisDirections == {VI(0, 0, -1), VI(0, 0, 1), VI(0, -1, 0)}

NextPrimitives ==
    \/ \E obj \in PrimitivePool :
          AddObject(obj) /\ UNCHANGED <<renderVars, probe, pixelVars, litVars, castVars, unitVars>>
    \/ Finish /\ UNCHANGED <<renderVars, probe, pixelVars, litVars, castVars, unitVars>>
    \/ \E o \in AxisOrigins, d \in AxisDirections :
          Trace(o, d) /\ UNCHANGED <<renderVars, probe, pixelVars, litVars, castVars, unitVars>>

SpecPrimitives == InitTrace /\ [][NextPrimitives]_vars

\* C13: every IntersectionResult that Object.intersect returns has a
\* distance t >= 0: no intersection behind the ray origin is returned.
C13_DistanceNonNegative ==
    \A i \in DOMAIN objHits :
        objHits[i].some => QLe(QI(0), objHits[i].val.distance)

----------------------------------------------------------------------------
(* Color::clamp: C14                                                        *)

\* Channel values below, in and above [0, 1], and the f32 values that are no
\* numbers.
ChannelValues ==
    {RNaN, RNegInf, RInt(-1), RInt(0), Rat(1, 2), RInt(1), Rat(3, 2), RInf}

InitColor ==
    /\ RenderUnused
    /\ probe = NoProbe
    /\ LitUnused
    /\ PixelUnused
    /\ CastUnused
    /\ TraceUnused
    /\ obuilder = None
    /\ obCalls = <<>>
    /\ ccolor \in {Some([given |-> from_rgb(r, g, b), now |-> from_rgb(r, g, b)])
                      : r \in ChannelValues, g \in ChannelValues, b \in ChannelValues}
    /\ clamps = 0

\* color = color.clamp()
Clamp ==
    /\ ccolor # None
    /\ clamps < 2
    /\ ccolor' = Some([ccolor.val EXCEPT !.now = clamp(@)])
    /\ clamps' = clamps + 1
    /\ UNCHANGED <<obuilder, obCalls>>

NextColor == Clamp /\ UNCHANGED <<renderVars, probe, pixelVars, litVars, castVars, traceVars>>

SpecColor == InitColor /\ [][NextColor]_vars

\* A channel lies in [0, 1].
InUnit(x) == x # RNaN /\ ~RLt(x, RInt(0)) /\ ~RLt(RInt(1), x)

\* C14: every channel of c.clamp() lies in [0, 1], and a further clamp leaves
\* every channel as it is.
C14_ClampIdempotent ==
    /\ [](clamps >= 1 =>
            /\ InUnit(ccolor.val.now.red)
            /\ InUnit(ccolor.val.now.green)
            /\ InUnit(ccolor.val.now.blue))
    /\ [][clamps >= 1 => ccolor' = ccolor]_vars

\* A colour of a NaN, a negative and a too large channel was clamped twice.
C14_Witness ==
    /\ clamps = 2
    /\ ccolor.val.given = from_rgb(RNaN, RInt(-1), Rat(3, 2))
    /\ ccolor.val.now = from_rgb(RInt(1), RInt(0), RInt(1))

----------------------------------------------------------------------------
(* ObjectBuilder: C15                                                       *)

\* Largest number of builder methods called on one ObjectBuilder, create_for
\* included.
MaxBuilderCalls == 3

BuilderStructures ==
    {Sphere_create(QI(20)), Plane_create(VI(0, -1, 0)), Mesh_create(ObjTri)}
BuilderPositions == {VI(0, 0, 0), VI(0, -1, 0)}

InitBuilder ==
    /\ RenderUnused
    /\ probe = NoProbe
    /\ LitUnused
    /\ PixelUnused
    /\ CastUnused
    /\ TraceUnused
    /\ UnitUnused

Call(method, arg) == [method |-> method, arg |-> arg]

\* ObjectBuilder::create_for(structure)
CreateFor(structure) ==
    /\ obuilder = None
    /\ scn = None
    /\ Len(sbObjects) < MaxSceneObjects
    /\ obuilder' = Some(create_for(structure))
    /\ obCalls' = <<Call("create_for", structure.kind)>>
    /\ UNCHANGED <<ccolor, clamps, traceVars>>

\* One of the setters of the builder: the builder is moved into the call, and
\* what the call returns takes its place.
Setter(method, arg, after) ==
    /\ obuilder # None
    /\ Len(obCalls) < MaxBuilderCalls
    /\ obuilder' = Some(after)
    /\ obCalls' = Append(obCalls, Call(method, arg))
    /\ UNCHANGED <<ccolor, clamps, traceVars>>

AtPosition(p) == Setter("at_position", p, at_position(obuilder.val, p))
Scale(k) == Setter("scale", k, scale_to(obuilder.val, k))
Rotation(rot) == Setter("rotation", rot, rotation_to(obuilder.val, rot))
WithMaterial(material) ==
    Setter("with_material", material, with_material(obuilder.val, material))

\* let obj: Object = builder.into(), and the object is added to the scene
Into ==
    /\ obuilder # None
    /\ AddObject(Object_from(obuilder.val))
    /\ obuilder' = None
    /\ obCalls' = Append(obCalls, Call("into", <<>>))
    /\ UNCHANGED <<ccolor, clamps>>

NextBuilder ==
    \/ \E st \in BuilderStructures :
          CreateFor(st) /\ UNCHANGED <<renderVars, probe, pixelVars, litVars, castVars>>
    \/ \E p \in BuilderPositions :
          AtPosition(p) /\ UNCHANGED <<renderVars, probe, pixelVars, litVars, castVars>>
    \/ Scale(QI(2)) /\ UNCHANGED <<renderVars, probe, pixelVars, litVars, castVars>>
    \/ Rotation(RotZ345) /\ UNCHANGED <<renderVars, probe, pixelVars, litVars, castVars>>
    \/ WithMaterial(MatMirror) /\ UNCHANGED <<renderVars, probe, pixelVars, litVars, castVars>>
    \/ Into /\ UNCHANGED <<renderVars, probe, pixelVars, litVars, castVars>>

SpecBuilder == InitBuilder /\ [][NextBuilder]_vars

\* The object just built came from create_for(..).at_position(p).into().
BuiltAtPosition ==
    /\ obuilder = None
    /\ Len(obCalls) = 3
    /\ obCalls[1].method = "create_for"
    /\ obCalls[2].method = "at_position"
    /\ obCalls[3].method = "into"

\* What C15 says of such an object but for its rotation.
BuiltDefaults ==
    LET obj == sbObjects[Len(sbObjects)]
    IN  /\ obj.position.position = obCalls[2].arg
        /\ obj.position.scale = QI(1)
        /\ obj.material.albedo = Rat(1, 10)

----------------------------------------------------------------------------
(* The scene while it is rendered: C16                                      *)

\* C16: once finish has returned the Scene, no step of the run (a worker
\* starting a tile, putting a pixel or sending, the consumer receiving,
\* render returning) changes its objects, its lights or a mesh's triangles
\* and bounding box, and the objects and lights are those added to the
\* builder, in the order they were added.
C16_SceneFrozen ==
    /\ [][scn # None => scn' = scn]_vars
    /\ [](scn # None =>
            /\ scn.val.objects = sbObjects
            /\ scn.val.lights = sbLights)

\* render has returned an image of two tiles of a scene of a mesh and two
\* different lights.
C16_Witness ==
    /\ pc = "done"
    /\ jobs = 2 /\ counter = 2
    /\ Len(scn.val.objects) = 1
    /\ scn.val.objects[1].structure.kind = "Mesh"
    /\ Len(scn.val.lights) = 2
    /\ scn.val.lights[1] # scn.val.lights[2]

----------------------------------------------------------------------------
(* Whole tiles only: C17                                                    *)

\* The pixels of an image that were written, and those of a rectangle.
Cells(x, y, w, h) == {<<px, py>> : px \in x..(x + w - 1), py \in y..(y + h - 1)}
Written(img) ==
    UNION {Cells(img.layers[i].x, img.layers[i].y, img.layers[i].w, img.layers[i].h)
              : i \in DOMAIN img.layers}

\* Every pixel written into img holds the colour of the sensor position that
\* is its own position moved by (mx, my).
Placed_At(img, mx, my) ==
    \A i \in DOMAIN img.layers :
        img.layers[i].ox = mx + img.layers[i].x /\ img.layers[i].oy = my + img.layers[i].y

\* All tile_width * tile_height pixels of a tile image are computed and stored.
Complete(img, mx, my) ==
    /\ Written(img) = Cells(0, 0, img.width, img.height)
    /\ Placed_At(img, mx, my)

\* The rectangle of job j in the destination image is untouched, or filled
\* with the tile's pixels.
UntouchedOrFilled(j) ==
    LET r == TileRect(j, cols, camera.width, camera.height)
        cells == Cells(r.x, r.y, r.w, r.h)
        done == Written(dest) \cap cells
    IN  done = {} \/ done = cells

\* C17: a tile image on the result channel holds all tile_width * tile_height
\* pixels of its tile, and each tile rectangle of the destination image is
\* either entirely untouched or entirely filled with that tile's pixels.
C17_NoHalfWrittenTile ==
    /\ \A i \in DOMAIN chan : Complete(chan[i].image, chan[i].x, chan[i].y)
    /\ Placed_At(dest, 0, 0)
    /\ \A j \in DOMAIN hist : UntouchedOrFilled(j)

\* One tile of two is in the destination image while a worker is half way
\* through the other.
C17_Witness ==
    /\ jobs = 2 /\ counter = 1
    /\ Written(dest) # {}
    /\ \E w \in 1..NumWorkers :
          /\ workers[w].st = "running"
          /\ Written(workers[w].image) # {}
          /\ Written(workers[w].image) # Cells(0, 0, workers[w].image.width,
                                               workers[w].image.height)

----------------------------------------------------------------------------
(* shade_diffuse over the geometry of a scene (src/render.rs:17-37): the    *)
(* intersection a prime ray found is shaded light by light, each light with *)
(* a shadow ray that is traced through the scene.                           *)

\* `as f32` of an f64 that has no 1e-13 part
as_f32(q) == Rat(q.n, q.d)

\* render.rs:25
light_power(int, direction_to_light) ==
    RAbs(as_f32(Dot(int.surface_normal, direction_to_light)))

\* render.rs:24-32: what an unshadowed light adds.  light_intensity *
\* light_reflected is intensity * (albedo / PI).
light_term(int, light, direction_to_light) ==
    ColorScale(ColorScale(ColorMul(int.surface.color, light.color),
                          light_power(int, direction_to_light)),
               RMul(light.intensityOverPi, int.surface.albedo))

\* A loop body that leaves the shadow trace unread.
loop_body_Unshadowed(color, int, light, direction_to_light, shadow_trace) ==
    ColorAdd(color, light_term(int, light, direction_to_light))

\* render.rs:23-33, the body of the loop once the shadow ray is traced
loop_body(color, int, light, direction_to_light, shadow_trace) ==
    IF shadow_trace = None
    THEN ColorAdd(color, light_term(int, light, direction_to_light))
    ELSE color

\* A floor, a roof above it, a tilted floor and a floor of another material.
ShadeObjects ==
    {Object_from(create_for(Mesh_create(ObjTri))),
     Object_from(at_position(create_for(Mesh_create(ObjTri)), VI(0, 2, 0))),
     Object_from(rotation_to(create_for(Mesh_create(ObjTri)), RotZ345)),
     Object_from(with_material(create_for(Mesh_create(ObjTri)), MatDiffuse))}

\* White lights from above and from below, and a red one of twice the
\* intensity from above.
ShadeLights ==
    {DirectionalLight(d) : d \in LightDirections}
    \cup {[direction |-> VI(0, -1, 0), color |-> from_rgb(RInt(1), RInt(0), RInt(0)),
           intensityOverPi |-> RInt(2)]}

\* Prime rays down at the floor from below and from above the roof, and up at
\* the floor from below.
ShadeRays ==
    {[origin |-> VI(0, 1, 0), direction |-> VI(0, -1, 0)],
     [origin |-> VI(0, 3, 0), direction |-> VI(0, -1, 0)],
     [origin |-> VI(0, -1, 0), direction |-> VI(0, 1, 0)]}

\* shade_diffuse is called with the intersection of a prime ray (render.rs:40,
\* 18).
ShadeStart ==
    /\ tray # None /\ tray.val.ray_type = "Prime" /\ traced # None
    /\ litColor = None
    /\ litColor' = Some(BlackColor)
    /\ shadowOf' = Some(traced.val.int)
    /\ UNCHANGED <<litCount, sbObjects, sbLights, scn, tray, objHits, traced>>

\* One turn of the loop of shade_diffuse (render.rs:19-34).
ShadeLight ==
    /\ litColor # None
    /\ litCount < Len(scn.val.lights)
    /\ \E light \in {scn.val.lights[litCount + 1]} :
       \E direction_to_light \in {Normalize(VNeg(light.direction))} :
       \E shadow_ray \in {create_shadow_ray(direction_to_light, shadowOf.val)} :
          /\ tray' = Some(shadow_ray)
          /\ objHits' = Hits(scn.val.objects, shadow_ray)
          /\ traced' = trace(objHits')
          /\ litColor' = Some(loop_body(litColor.val, shadowOf.val, light,
                                        direction_to_light, traced'))
    /\ litCount' = litCount + 1
    /\ UNCHANGED <<sbObjects, sbLights, scn, shadowOf>>

NextShade ==
    \/ \E obj \in ShadeObjects :
          AddObject(obj) /\ UNCHANGED <<renderVars, probe, pixelVars, litVars, castVars, unitVars>>
    \/ \E light \in ShadeLights :
          AddLight(light) /\ UNCHANGED <<renderVars, probe, pixelVars, litVars, castVars, unitVars>>
    \/ Finish /\ UNCHANGED <<renderVars, probe, pixelVars, litVars, castVars, unitVars>>
    \/ \E r \in ShadeRays :
          Trace(r.origin, r.direction)
          /\ UNCHANGED <<renderVars, probe, pixelVars, litVars, castVars, unitVars>>
    \/ ShadeStart /\ UNCHANGED <<renderVars, probe, pixelVars, castVars, unitVars>>
    \/ ShadeLight /\ UNCHANGED <<renderVars, probe, pixelVars, castVars, unitVars>>

SpecShade == InitTrace /\ [][NextShade]_vars

----------------------------------------------------------------------------
(* Shadows and the power of a light: C18, C19                               *)

\* The shadow ray of the spec for light k: from hit.point + hit.normal * 1e-13
\* towards the normalized negated direction of the light.
ShadowRayOf(int, k) ==
    Bind(Normalize(VNeg(scn.val.lights[k].direction)), LAMBDA dir :
        [origin |-> VAdd(int.hit_point, VScale(int.surface_normal, EPSILON)),
         direction |-> dir,
         inv_direction |-> [x |-> FInv(dir.x), y |-> FInv(dir.y), z |-> FInv(dir.z)],
         ray_type |-> "Shadow"])

\* Light k is shadowed at the intersection: Scene.trace of its shadow ray
\* answers Some.
Shadowed(int, k) == trace(Hits(scn.val.objects, ShadowRayOf(int, k))) # None

\* The sum of the terms of those of the first k lights that are not shadowed.
RECURSIVE SumUnshadowed(_, _)
SumUnshadowed(int, k) ==
    IF k = 0 THEN BlackColor
    ELSE IF Shadowed(int, k) THEN SumUnshadowed(int, k - 1)
    ELSE ColorAdd(SumUnshadowed(int, k - 1),
                  light_term(int, scn.val.lights[k],
                             Normalize(VNeg(scn.val.lights[k].direction))))

\* C18: every turn of the loop of shade_diffuse traces the shadow ray from
\* hit.point + hit.normal * 1e-13 towards the normalized negated direction of
\* its light; a light whose shadow trace is Some leaves the colour as it was,
\* and the colour is the sum of the terms of the lights whose shadow trace is
\* None.
C18_ShadowedAddsNothing ==
    /\ [][litCount' = litCount + 1 =>
            /\ tray' = Some(ShadowRayOf(shadowOf.val, litCount'))
            /\ traced' # None => litColor' = litColor]_vars
    /\ [](litColor # None => litColor.val = SumUnshadowed(shadowOf.val, litCount))

\* Of two lights gone through, one was shadowed and one has added its term.
C18_Witness ==
    /\ litCount = 2
    /\ \E k \in 1..2 : Shadowed(shadowOf.val, k)
    /\ \E k \in 1..2 : ~Shadowed(shadowOf.val, k)
    /\ litColor.val # BlackColor

\* The term of light k with the power of the spec: max(0, normal . direction
\* to the light) * intensity, times the colours and albedo / PI.
LambertTerm(int, k) ==
    LET light == scn.val.lights[k]
        direction_to_light == Normalize(VNeg(light.direction))
        power == RMax(RInt(0), as_f32(Dot(int.surface_normal, direction_to_light)))
    IN  ColorScale(ColorScale(ColorMul(int.surface.color, light.color), power),
                   RMul(light.intensityOverPi, int.surface.albedo))

RECURSIVE SumLambert(_, _)
SumLambert(int, k) ==
    IF k = 0 THEN BlackColor
    ELSE IF Shadowed(int, k) THEN SumLambert(int, k - 1)
    ELSE ColorAdd(SumLambert(int, k - 1), LambertTerm(int, k))

\* C19: the colour shade_diffuse has summed up is that of the unshadowed
\* lights each with the power max(0, normal . direction to the light) *
\* intensity; a light the surface faces away from has added nothing.
C19_FacingAwayAddsNothing ==
    litColor # None => litColor.val = SumLambert(shadowOf.val, litCount)

----------------------------------------------------------------------------
(* The reflection of get_color: C20                                         *)

\* r >= 1e-10, for a rational r
AtLeast1em10(r) == r.n * 100000 >= CeilDiv(r.d, 100000)

\* The material of the hit get_color is shading reflects.
Reflects(mat) ==
    mat.surface.kind = "Reflective" /\ AtLeast1em10(mat.surface.reflectivity)

\* C20: get_color of a hit whose material has a reflectivity r of at least
\* 1e-10 casts the reflection ray at depth + 1 and returns local * (1 - r) +
\* cast * r; for a hit whose material is Diffuse or has a reflectivity below
\* 1e-10 it casts no ray and returns the local diffuse colour alone.
C20_ReflectionMix ==
    /\ [][AtGetColorShade =>
            LET local == shade_diffuse(shScene.val, Top.obj)
            IN  IF Reflects(shScene.val.mats[Top.obj])
                THEN /\ shCall' = Some([from |-> Top.obj, depth |-> Top.depth + 1])
                     /\ Len(shStack') = Len(shStack)
                     /\ shStack'[Len(shStack)].color = local
                     /\ shRet' = None
                ELSE /\ shCall' = None
                     /\ shTraced' = shTraced
                     /\ shStack' = Pop
                     /\ shRet' = Some(local)]_vars
    /\ [][AtGetColorCombine =>
            LET local == shade_diffuse(shScene.val, Top.obj)
                r == shScene.val.mats[Top.obj].surface.reflectivity
            IN  /\ Reflects(shScene.val.mats[Top.obj])
                /\ shStack' = Pop
                /\ shRet' = Some(ColorAdd(ColorScale(local, RSub(RInt(1), r)),
                                          ColorScale(shRet.val, r)))]_vars

\* A sample has hit a lit surface of reflectivity 1/2 whose reflection ray hit
\* a lit surface of reflectivity 0: one ray was cast, at depth 1, and the
\* colour is half of the one local colour and half of the other.
C20_Witness ==
    /\ AtSampleEnd
    /\ Len(shScene.val.mats) = 2
    /\ shScene.val.mats[1] = MatHalf /\ shScene.val.mats[2] = MatZero
    /\ shTraced = <<0, 1>>
    /\ shade_diffuse(shScene.val, 1) # BlackColor
    /\ shade_diffuse(shScene.val, 2) # BlackColor
    /\ shRet.val = ColorAdd(ColorScale(shade_diffuse(shScene.val, 1), Rat(1, 2)),
                            ColorScale(shade_diffuse(shScene.val, 2), Rat(1, 2)))

----------------------------------------------------------------------------
(* The roots of the sphere: C21                                             *)

\* The roots t0 = adj - thc and t1 = adj + thc of the ray with the sphere of
\* an object, where the line of the ray meets the sphere.
SphereRoots(object, ray) ==
    LET l == VSub(object.position.position, ray.origin)
        adj == Dot(l, ray.direction)
        d2 == QSub(Dot(l, l), QMul(adj, adj))
        r == QMul(object.structure.radius, object.position.scale)
        radius2 == QMul(r, r)
    IN  IF QLt(radius2, d2) THEN <<>>
        ELSE LET thc == QSqrt(QSub(radius2, d2))
             IN  <<QSub(adj, thc), QAdd(adj, thc)>>

\* The smallest of the roots that are not negative, if there is one.
SmallestNonNegative(roots) ==
    IF roots = <<>> \/ (QLt(roots[1], QI(0)) /\ QLt(roots[2], QI(0))) THEN None
    ELSE IF QLt(roots[1], QI(0)) THEN Some(roots[2])
    ELSE Some(roots[1])

\* C21: for every sphere of the scene and the ray traced, Sphere.intersect
\* answers None when both roots are negative and otherwise the smallest of the
\* roots that are not negative: t1 when the origin of the ray is inside the
\* sphere (t0 < 0 <= t1).
C21_SmallestNonNegativeRoot ==
    tray # None =>
        \A i \in DOMAIN objHits :
            scn.val.objects[i].structure.kind = "Sphere" =>
                LET want == SmallestNonNegative(SphereRoots(scn.val.objects[i], tray.val))
                IN  IF want = None THEN objHits[i] = None
                    ELSE objHits[i] # None /\ objHits[i].val.distance = want.val

----------------------------------------------------------------------------
(* The plane is single-sided: C22                                           *)

\* q > 1e-10, for a q whose 1e-13 part is below 1e-10
Above1em10(q) == q.n * 100000 > q.d \div 100000

\* denom = n . D of a plane of the scene and the ray traced
PlaneDenom(object, ray) == Dot(object.structure.normal, ray.direction)

\* t = (P - O) . n / denom
PlaneT(object, ray) ==
    QDiv(Dot(VSub(object.position.position, ray.origin), object.structure.normal),
         PlaneDenom(object, ray))

\* C22: for every plane of the scene and the ray traced, the plane answers
\* with a hit exactly when denom = n . D is greater than 1e-10 and
\* t = (P - O) . n / denom is at least 0; the hit is at distance t, at the
\* point O + D * t, with the surface normal -n.  Every ray with denom <= 1e-10
\* gets None.
C22_PlaneSingleSided ==
    tray # None =>
        \A i \in DOMAIN objHits :
            scn.val.objects[i].structure.kind = "Plane" =>
                LET object == scn.val.objects[i] IN
                IF Above1em10(PlaneDenom(object, tray.val))
                   /\ QLe(QI(0), PlaneT(object, tray.val))
                THEN /\ objHits[i] # None
                     /\ objHits[i].val.distance = PlaneT(object, tray.val)
                     /\ objHits[i].val.hit_point =
                           VAdd(tray.val.origin,
                                VScale(tray.val.direction, PlaneT(object, tray.val)))
                     /\ objHits[i].val.surface_normal = VNeg(object.structure.normal)
                ELSE objHits[i] = None

\* A ray along -z from in front of both planes: the plane that faces it
\* answered with a hit whose normal is -n = (0,0,1), the plane it runs parallel
\* to answered None.
C22_Witness ==
    /\ tray # None
    /\ Len(objHits) = 2
    /\ scn.val.objects[1].structure.kind = "Plane"
    /\ scn.val.objects[2].structure.kind = "Plane"
    /\ Above1em10(PlaneDenom(scn.val.objects[1], tray.val))
    /\ objHits[1] # None
    /\ objHits[1].val.surface_normal = VI(0, 0, 1)
    /\ PlaneDenom(scn.val.objects[2], tray.val) = QI(0)
    /\ objHits[2] = None

----------------------------------------------------------------------------
(* The tree of a mesh: C23                                                  *)

\* An obj file of n faces without normals over nine vertices: the triangle of
\* the tests and two copies of it, moved on by 1 and by 2 along x, each the
\* face of every third line.
ObjStrip(n) ==
    [vertices |-> [k \in 1..9 |->
                      VAdd(ObjTri.vertices[((k - 1) % 3) + 1], VI((k - 1) \div 3, 0, 0))],
     faces |-> [i \in 1..n |->
                   LET c == (i - 1) % 3 IN <<3 * c + 1, 3 * c + 2, 3 * c + 3>>]]

\* Obj files of 1, 2, 250 and 251 triangles.
MeshFiles == {ObjTri, ObjStack, ObjStrip(250), ObjStrip(251)}

\* Where the meshes are put.
MeshPositions == {VI(0, 0, 0), VI(0, -1, 0)}

\* add_object(ObjectBuilder::create_for(Mesh::create(obj)).at_position(p).into())
\* and finish.
NextMesh ==
    \/ \E obj \in MeshFiles, p \in MeshPositions :
          AddObject(Object_from(at_position(create_for(Mesh_create(obj)), p)))
          /\ UNCHANGED <<renderVars, probe, pixelVars, litVars, castVars, unitVars>>
    \/ Finish /\ UNCHANGED <<renderVars, probe, pixelVars, litVars, castVars, unitVars>>

SpecMesh == InitTrace /\ [][NextMesh]_vars

\* The triangles of the leaves of a tree, from left to right.
RECURSIVE TreeTriangles(_)
TreeTriangles(node) ==
    IF node.kind = "Leaf" THEN node.triangles
    ELSE TreeTriangles(node.left) \o TreeTriangles(node.right)

\* The coordinates of the bounding box of a mesh and of a triangle's centroid,
\* times 3, along an axis.
Along(p, axis) == IF axis = 1 THEN p.x ELSE IF axis = 2 THEN p.y ELSE p.z
Extent(mesh, axis) == QSub(Along(mesh.bb.max, axis), Along(mesh.bb.min, axis))
Centroid3(tri, axis) ==
    QAdd(QAdd(Along(tri.p1, axis), Along(tri.p2, axis)), Along(tri.p3, axis))

\* The two subtrees of a node part the triangles by their centroid against the
\* midpoint of the longest extent of the bounding box; a centroid on the plane
\* is on the right.
SplitAtMidpoint(mesh) ==
    \E axis \in 1..3 :
        /\ \A other \in 1..3 : QLe(Extent(mesh, other), Extent(mesh, axis))
        /\ LET mid6 == QMul(QI(3), QAdd(Along(mesh.bb.min, axis), Along(mesh.bb.max, axis)))
               left == TreeTriangles(mesh.root.left)
               right == TreeTriangles(mesh.root.right)
           IN  /\ \A i \in DOMAIN left : QLt(QMul(QI(2), Centroid3(left[i], axis)), mid6)
               /\ \A i \in DOMAIN right : QLe(mid6, QMul(QI(2), Centroid3(right[i], axis)))

\* A sequence holds the elements of another, each as often.
SameBag(s, t) ==
    /\ Len(s) = Len(t)
    /\ \A x \in {s[i] : i \in DOMAIN s} :
          Cardinality({i \in DOMAIN s : s[i] = x}) = Cardinality({i \in DOMAIN t : t[i] = x})

\* C23: the tree of every mesh is a Leaf that holds all its triangles when
\* they are at most 250, and otherwise a Node whose subtrees part the
\* triangles by centroid at the midpoint of the longest extent of the bounding
\* box; every triangle of the mesh is in exactly one leaf.
C23_LeafUpTo250 ==
    \A i \in DOMAIN sbObjects :
        sbObjects[i].structure.kind = "Mesh" =>
            LET mesh == sbObjects[i].structure IN
            /\ SameBag(TreeTriangles(mesh.root), mesh.triangles)
            /\ IF Len(mesh.triangles) <= 250
               THEN mesh.root = Leaf(mesh.triangles)
               ELSE mesh.root.kind = "Node" /\ SplitAtMidpoint(mesh)

----------------------------------------------------------------------------
(* super_sample of one pixel (src/render.rs:90-101): C24                    *)

\* The pixels super_sample is called for: (mx + x) as f64, (my + y) as f64.
SuperPixels == {[x |-> 0, y |-> 0], [x |-> 3, y |-> 7]}

Position(x, y) == [x |-> x, y |-> y]
Quarter == Rat(1, 4)

\* The positions of render.rs:93-97, in the order of the vec.
sample_positions(x, y) ==
    <<Position(RSub(RInt(x), Quarter), RSub(RInt(y), Quarter)),
      Position(RAdd(RInt(x), Quarter), RSub(RInt(y), Quarter)),
      Position(RSub(RInt(x), Quarter), RAdd(RInt(y), Quarter)),
      Position(RAdd(RInt(x), Quarter), RAdd(RInt(y), Quarter)),
      Position(RInt(x), RInt(y))>>

\* What sample returns: None for a prime ray that misses, or the bytes of
\* color.clamp().to_rgba8().
SampleValues ==
    {None, Some(<<255, 255, 255, 0>>), Some(<<254, 1, 128, 0>>), Some(<<3, 128, 255, 0>>)}

\* The sample positions about a pixel a quarter or less away from it.
Near(x, y) ==
    {Position(RAdd(RInt(x), dx), RAdd(RInt(y), dy))
        : dx \in {Rat(-1, 4), RInt(0), Quarter}, dy \in {Rat(-1, 4), RInt(0), Quarter}}

\* Between the corners and the centre sample answers with a colour of its own.
Between == Some(<<7, 7, 7, 0>>)

\* sample(x, y, scene, camera) of a scene and camera as a function of the
\* position: the corners and the centre each answer with one of SampleValues.
SampleMaps(x, y) ==
    {[p \in Near(x, y) |->
        IF p.x = RInt(x) /\ p.y = RInt(y) THEN c
        ELSE IF p.x = RInt(x) \/ p.y = RInt(y) THEN Between
        ELSE IF RLt(p.y, RInt(y))
             THEN (IF RLt(p.x, RInt(x)) THEN a1 ELSE a2)
             ELSE (IF RLt(p.x, RInt(x)) THEN a3 ELSE a4)]
        : a1 \in SampleValues, a2 \in SampleValues, a3 \in SampleValues,
          a4 \in SampleValues, c \in SampleValues}

InitSuper ==
    /\ RenderUnused
    /\ probe = NoProbe
    /\ LitUnused
    /\ PixelUnused
    /\ \E px \in SuperPixels :
          shScene \in {Some([x |-> px.x, y |-> px.y, sample |-> m])
                          : m \in SampleMaps(px.x, px.y)}
    /\ shpc = "samples"
    /\ shSamples = <<>>
    /\ shStack = <<>>
    /\ shCall = None
    /\ shRet = None
    /\ shPixel = None
    /\ shTraced = <<>>
    /\ TraceUnused
    /\ UnitUnused

\* The next element of the vec of render.rs:92-98:
\* sample(position, scene, camera).unwrap_or(black)
SampleAt ==
    /\ shpc = "samples" /\ Len(shSamples) < 5
    /\ \E position \in
          {sample_positions(shScene.val.x, shScene.val.y)[Len(shSamples) + 1]} :
       \E r \in {shScene.val.sample[position]} :
          /\ sampledAt' = Append(sampledAt, position)
          /\ shSamples' = Append(shSamples,
                                 IF r.some THEN r.val ELSE to_rgba8(BlackColor))
    /\ UNCHANGED <<shScene, shpc, shStack, shCall, shRet, shPixel, shTraced,
                   wrapArgs, wrapped>>

NextSuper ==
    \/ SampleAt /\ UNCHANGED <<renderVars, probe, litVars, traceVars, unitVars>>
    \/ SuperSampleEnd
       /\ UNCHANGED <<renderVars, probe, pixelVars, litVars, traceVars, unitVars>>

SpecSuper == InitSuper /\ [][NextSuper]_vars

\* The bytes of channel ch of the samples taken.
Bytes(ch) == {shSamples[k][ch] : k \in DOMAIN shSamples}

\* C24: super_sample of pixel (x, y) calls sample five times, at
\* (x-0.25, y-0.25), (x+0.25, y-0.25), (x-0.25, y+0.25), (x+0.25, y+0.25) and
\* (x, y); a sample whose prime ray misses counts as (0,0,0,0); every channel
\* of what it returns is the integer quotient by 5 of the sum of the five
\* sample bytes, which is no less than the smallest and no more than the
\* largest of them, and at most 255.
C24_FiveSampleAverage ==
    LET x == shScene.val.x
        y == shScene.val.y
        want == <<Position(Rat(4 * x - 1, 4), Rat(4 * y - 1, 4)),
                  Position(Rat(4 * x + 1, 4), Rat(4 * y - 1, 4)),
                  Position(Rat(4 * x - 1, 4), Rat(4 * y + 1, 4)),
                  Position(Rat(4 * x + 1, 4), Rat(4 * y + 1, 4)),
                  Position(Rat(4 * x, 4), Rat(4 * y, 4))>>
    IN  /\ Len(sampledAt) <= 5 /\ Len(shSamples) = Len(sampledAt)
        /\ \A k \in DOMAIN sampledAt :
              /\ sampledAt[k] = want[k]
              /\ shSamples[k] = IF shScene.val.sample[want[k]] = None
                                THEN <<0, 0, 0, 0>>
                                ELSE shScene.val.sample[want[k]].val
        /\ shpc = "done" =>
              /\ Len(sampledAt) = 5
              /\ shPixel # None
              /\ \A ch \in 1..4 :
                    /\ shPixel.val[ch] =
                          (shSamples[1][ch] + shSamples[2][ch] + shSamples[3][ch]
                             + shSamples[4][ch] + shSamples[5][ch]) \div 5
                    /\ \E b \in Bytes(ch) : b <= shPixel.val[ch]
                    /\ \E b \in Bytes(ch) : shPixel.val[ch] <= b
                    /\ shPixel.val[ch] <= 255

\* A pixel is done whose samples missed twice and hit white three times: the
\* bytes sum to 765, more than a byte holds, and their average is 153.
C24_Witness ==
    /\ shpc = "done"
    /\ Cardinality({k \in 1..5 : shScene.val.sample[sampledAt[k]] = None}) = 2
    /\ Cardinality({k \in 1..5 : shSamples[k] = <<255, 255, 255, 0>>}) = 3
    /\ shPixel = Some(<<153, 153, 153, 0>>)

----------------------------------------------------------------------------
(* wrap (src/objects/mod.rs:35-44) on the 32 bits of its types.             *)
(*                                                                          *)
(* An i32 is an integer of I32_MIN..I32_MAX.  A u32 is kept as the i32 of   *)
(* the same 32 bits, so that `as i32` and `as u32` change nothing.  A finite *)
(* f32 is [m, e], the number m * 2^e with |m| <= 2^24; PInf, NInf and NaN   *)
(* are the others.                                                          *)

I32_MAX == 2147483647
I32_MIN == -I32_MAX - 1

\* The u32 of a natural number below 2^31, and of 2^32 - k for k in 1..2^31.
U32(n) == n
U32Below(k) == -k

\* a < b for u32 a, b
U32Lt(a, b) ==
    LET Flip(s) == IF s >= 0 THEN s + I32_MIN ELSE s - I32_MIN
    IN  Flip(a) < Flip(b)

Dy(m, e) == [k |-> "fin", m |-> m, e |-> e]

RECURSIVE Bits(_)
Bits(a) == IF a = 0 THEN 0 ELSE 1 + Bits(a \div 2)

\* The f32 nearest to a * 2^e for a natural a, ties to the even mantissa.
RoundF32(a, e) ==
    LET s == Max(Bits(a) - 24, 0)
        q == a \div Pow2(s)
        rem == a % Pow2(s)
        up == 2 * rem > Pow2(s) \/ (2 * rem = Pow2(s) /\ q % 2 = 1)
    IN  Dy(IF up THEN q + 1 ELSE q, e + s)

\* `bound as f32` (mod.rs:37).  A bound of 2^31 or more is 2^31 + t with the
\* f32 spacing 256.
u32_as_f32(bound) ==
    IF bound >= 0 THEN RoundF32(bound, 0)
    ELSE LET t == bound - I32_MIN
             q == Pow2(23) + t \div 256
             rem == t % 256
             up == rem > 128 \/ (rem = 128 /\ q % 2 = 1)
         IN  Dy(IF up THEN q + 1 ELSE q, 8)

\* val * f for f32 val and f (mod.rs:37); f is finite and not negative.
f32_mul(val, f) ==
    IF val = NaN THEN NaN
    ELSE IF val \in {PInf, NInf} THEN (IF f.m = 0 THEN NaN ELSE val)
    ELSE LET p == val.m * f.m
             r == RoundF32(Abs(p), val.e + f.e)
         IN  Dy(IF p < 0 THEN -r.m ELSE r.m, r.e)

\* m * 2^e as i32: what does not fit is the nearest i32.
RECURSIVE SatShl(_, _)
SatShl(m, e) ==
    IF e = 0 THEN m
    ELSE IF m >= Pow2(30) THEN I32_MAX
    ELSE IF m <= -Pow2(30) THEN I32_MIN
    ELSE SatShl(2 * m, e - 1)

\* `float_coord as i32` (mod.rs:38): truncation towards zero; NaN is 0 and
\* what lies outside i32 is the nearest i32.
f32_as_i32(f) ==
    IF f = NaN THEN 0
    ELSE IF f = PInf THEN I32_MAX
    ELSE IF f = NInf THEN I32_MIN
    ELSE IF f.e >= 0 THEN SatShl(f.m, f.e)
    ELSE IF -f.e > 30 THEN 0
    ELSE IF f.m < 0 THEN -((-f.m) \div Pow2(-f.e))
    ELSE f.m \div Pow2(-f.e)

Returned(v) == [panic |-> FALSE, val |-> v]
Panicked == [panic |-> TRUE]

\* c % signed_bound on i32 (mod.rs:38): the remainder has the sign of c; a
\* divisor of 0 panics, and so does i32::MIN % -1.
i32_rem(c, signed_bound) ==
    IF signed_bound = 0 THEN Panicked
    ELSE IF c = I32_MIN /\ signed_bound = -1 THEN Panicked
    ELSE IF signed_bound = I32_MIN THEN Returned(IF c = I32_MIN THEN 0 ELSE c)
    ELSE LET d == Abs(signed_bound)
         IN  IF c = I32_MIN THEN Returned(-(((I32_MAX % d) + 1) % d))
             ELSE IF c < 0 THEN Returned(-((-c) % d))
             ELSE Returned(c % d)

\* a + b on i32 for a < 0 (mod.rs:40).  A sum below i32::MIN panics in a build
\* with overflow checks and wraps around in a build without.
i32_add(a, b) ==
    IF b < 0 /\ a < I32_MIN - b
    THEN {Panicked, Returned((a - I32_MIN) + (b - I32_MIN))}
    ELSE {Returned(a + b)}

\* wrap, mod.rs:35-44: the outcomes of wrap(val, bound)
wrap(val, bound) ==
    LET signed_bound == bound
        float_coord == f32_mul(val, u32_as_f32(bound))
        wrapped_coord == i32_rem(f32_as_i32(float_coord), signed_bound)
    IN  IF wrapped_coord.panic THEN {Panicked}
        ELSE IF wrapped_coord.val < 0 THEN i32_add(wrapped_coord.val, signed_bound)
        ELSE {wrapped_coord}

\* Texture coordinates: -5/2, -1, -1/4, 0, 1/4, 1/2, 1, 3/2, 33/32, and the
\* f32 values that are no numbers.
WrapVals ==
    {Dy(-5, -1), Dy(-1, 0), Dy(-1, -2), Dy(0, 0), Dy(1, -2), Dy(1, -1), Dy(1, 0),
     Dy(3, -1), Dy(33, -5), NaN, PInf, NInf}

\* Widths and heights of a texture: small ones, 2^24 + 1 that f32 does not
\* hold, i32::MAX, 2^31, 2^31 + 2^30 and u32::MAX.
WrapBounds ==
    {U32(1), U32(2), U32(3), U32(256), U32(1000), U32(16777217), U32(I32_MAX),
     U32Below(I32_MAX) - 1, U32Below(1073741824), U32Below(1)}

InitWrap ==
    /\ RenderUnused
    /\ probe = NoProbe
    /\ LitUnused
    /\ sampledAt = <<>>
    /\ wrapArgs \in {Some([val |-> v, bound |-> b]) : v \in WrapVals, b \in WrapBounds}
    /\ wrapped = None
    /\ CastUnused
    /\ TraceUnused
    /\ UnitUnused

\* let tex_x = wrap(coords.x, tex.width()), mod.rs:51
Wrap ==
    /\ wrapArgs # None /\ wrapped = None
    /\ \E r \in wrap(wrapArgs.val.val, wrapArgs.val.bound) : wrapped' = Some(r)
    /\ UNCHANGED <<sampledAt, wrapArgs>>

NextWrap == Wrap /\ UNCHANGED <<renderVars, probe, litVars, castVars, traceVars, unitVars>>

SpecWrap == InitWrap /\ [][NextWrap]_vars

----------------------------------------------------------------------------
(* The index of a texel: C25                                                *)

\* C25: for every val and every bound > 0, wrap(val, bound) returns an index
\* that is at least 0 and below bound.
C25_WrapInRange ==
    wrapped # None =>
        /\ ~wrapped.val.panic
        /\ wrapped.val.val = 0 \/ U32Lt(0, wrapped.val.val)
        /\ U32Lt(wrapped.val.val, wrapArgs.val.bound)

----------------------------------------------------------------------------
(* A tile job that panics *)

\* The closure of render.rs:125-139 unwinds inside the pixel loop
\* (render.rs:131-137): its image and its tx clone are dropped, nothing is
\* sent, and the pool thread is replaced by an idle one.
Panic(w) ==
    /\ workers[w].st = "running"
    /\ workers' = [workers EXCEPT ![w] = Idle]
    /\ UNCHANGED <<camera, pc, cols, rows, jobs, job_idx, queue, chan, counter,
                   dest, hist>>

\* render is entered with a camera and a scene already built; the scene is
\* not read by the steps below.
InitPanic ==
    /\ camera \in RunCameras
    /\ pc = "start"
    /\ cols = 0 /\ rows = 0 /\ jobs = 0 /\ job_idx = 0
    /\ queue = <<>>
    /\ workers = [w \in 1..NumWorkers |-> Idle]
    /\ chan = <<>>
    /\ counter = 0
    /\ dest = new_rgb8(0, 0)
    /\ hist = <<>>
    /\ probe = NoProbe
    /\ LitUnused
    /\ PixelUnused
    /\ CastUnused
    /\ TraceUnused
    /\ UnitUnused

NextPanic ==
    \/ RenderStart /\ UNCHANGED <<probe, pixelVars, litVars, castVars, traceVars, unitVars>>
    \/ Submit /\ UNCHANGED <<probe, pixelVars, litVars, castVars, traceVars, unitVars>>
    \/ SubmitDone /\ UNCHANGED <<probe, pixelVars, litVars, castVars, traceVars, unitVars>>
    \/ \E w \in 1..NumWorkers : Execute(w) /\ UNCHANGED <<probe, pixelVars, litVars, castVars, traceVars, unitVars>>
    \/ \E w \in 1..NumWorkers : PutPixel(w) /\ UNCHANGED <<probe, pixelVars, litVars, castVars, traceVars, unitVars>>
    \/ \E w \in 1..NumWorkers : Panic(w) /\ UNCHANGED <<probe, pixelVars, litVars, castVars, traceVars, unitVars>>
    \/ \E w \in 1..NumWorkers : Send(w) /\ UNCHANGED <<probe, pixelVars, litVars, castVars, traceVars, unitVars>>
    \/ Receive /\ UNCHANGED <<probe, pixelVars, litVars, castVars, traceVars, unitVars>>
    \/ Return /\ UNCHANGED <<probe, pixelVars, litVars, castVars, traceVars, unitVars>>

SpecPanic == InitPanic /\ [][NextPanic]_vars

\* Job j was started and has ended without a send.
Lost(j) ==
    /\ hist[j].run > 0
    /\ hist[j].sent = 0
    /\ \A w \in 1..NumWorkers : workers[w].st # "idle" => workers[w].job.idx # j

\* C26: once a tile job has ended without sending its tile, render's own
\* sender keeps the channel open, the consumer has counted fewer than jobs
\* messages, and render has not returned: no image, partial or whole, and no
\* error comes back.
C26_PanicBlocksRender ==
    (\E j \in DOMAIN hist : Lost(j)) =>
        /\ pc = "recv" => Senders >= 1
        /\ counter < jobs
        /\ pc # "done"

\* One of two jobs has panicked, the other tile is received, and the consumer
\* waits on an empty channel that no job will write to again.
C26_Witness ==
    /\ pc = "recv"
    /\ jobs = 2
    /\ \E j \in DOMAIN hist : Lost(j)
    /\ counter = jobs - 1
    /\ chan = <<>>
    /\ queue = <<>>
    /\ \A w \in 1..NumWorkers : workers[w].st = "idle"

----------------------------------------------------------------------------
(* The depth argument along one sample's chain *)

\* C27: along the chain of calls that sample starts for one primary ray,
\* get_color is entered with depth 0 and every reflection bounce hands
\* depth + 1 to cast_ray; the argument never exceeds 32, and the rays traced
\* through Scene.trace for shading, the primary ray and the reflection rays
\* of depths 1 to 31, are 32 at most.  Shadow rays are not counted.
C27_DepthCountsBounces ==
    /\ \A i \in DOMAIN shTraced : shTraced[i] = i - 1
    /\ Len(shTraced) <= MaxDepth
    /\ \A i \in DOMAIN shStack :
          /\ shStack[i].depth = i - 1
          /\ shStack[i].depth < MaxDepth
    /\ shCall # None =>
          /\ shCall.val.depth = Top.depth + 1
          /\ shCall.val.depth = Len(shTraced)
          /\ shCall.val.depth <= MaxDepth

\* The chain has run to the cap: 32 rays are traced, 32 get_color frames are
\* open, and cast_ray is called with depth 32.
C27_Witness ==
    /\ shpc = "samples"
    /\ shCall # None
    /\ shCall.val.depth = MaxDepth
    /\ Len(shStack) = MaxDepth
    /\ shTraced = [i \in 1..MaxDepth |-> i - 1]

====
